---- MODULE Spec2Model ----
(***************************************************************************)
(* Podcast insight pipeline: the catalog aggregator                        *)
(* (generate_productreps_data.py), the legacy analyzer and its cache       *)
(* (analyzer.py), the hybrid analyzer's score normaliser                   *)
(* (analyzer_hybrid.py) and the serving layer's episode list (app.py).     *)
(*                                                                         *)
(* JSON encoding.  A JSON object is a TLA+ record keyed by the JSON keys;  *)
(* "key in data" is  key \in DOMAIN data.  Strings are strings, integers   *)
(* are integers.  Where one key takes values of several JSON types the     *)
(* value is wrapped in a record tagged by `json` (JArr, JNum, JStr,        *)
(* JNull), so that values of different types can be told apart.            *)
(* Scores with one decimal (`overall`) are held in tenths.                 *)
(***************************************************************************)
EXTENDS Integers, Sequences, FiniteSets, TLC

VARIABLES
    transcripts_dir,   \* transcripts/: analysis file name -> document
    cache_dir,         \* cache/: analysis file name -> document
    catalog,           \* productreps_insights.json
    all_insights,      \* the cards the last run collected from the files
    last_run,          \* the files the last completed run read and what it wrote
    run_status,        \* outcome of the last aggregation run
    runs,              \* aggregation runs made so far
    uuid_counter,      \* number of uuid4() values drawn so far
    earlier_ids,       \* ids written by aggregation runs before the last one
    txt_files,         \* ids with a transcript transcripts/{id}.txt
    metadata_json,     \* transcripts_metadata.json
    calls,             \* analyze_podcast calls made so far (the clock)
    llm_calls,         \* model calls made so far
    last_call,         \* arguments of the last analyze_podcast call
    last_return,       \* what the last analyze_podcast call returned or raised
    llm_outcome,       \* what the model did in the last call that reached it
    hy_response,       \* hybrid analyzer: the model's response to the call
    hy_round_up,       \* hybrid analyzer: see calculate_overall_score
    hy_result,         \* hybrid analyzer: what analyze_podcast returned or raised
    http_request,      \* serving layer: the last request
    http_response,     \* serving layer: the response to it
    txt_dir,           \* transcripts/*.txt: path -> content
    txt_args,          \* the arguments of the call that created each path
    hdr_content,       \* the content last given to parse_transcript_header
    hdr_result,        \* what parse_transcript_header returned for it
    prompt_sent,       \* analyzers: the transcript given and the part embedded
                       \* in the prompt of the last model call
    inf_filepath,      \* the path given to infer_metadata_from_filename
    inf_result,        \* what infer_metadata_from_filename returned for it
    batch_pc,          \* batch run: "idle", "running", "cancelled" or "done"
    batch_listed,      \* batch run: the unanalyzed transcripts it found
    batch_pending,     \* batch run: the transcripts still to attempt
    batch_results,     \* batch run: the results list
    batch_attempts     \* batch run: how often each transcript was attempted

aggVars == <<catalog, all_insights, last_run, run_status, runs, uuid_counter,
            earlier_ids>>

legacyVars == <<txt_files, metadata_json, calls, llm_calls, last_call,
                last_return, llm_outcome>>

hybridVars == <<hy_response, hy_round_up, hy_result>>

httpVars == <<http_request, http_response>>

txtVars == <<txt_dir, txt_args, hdr_content, hdr_result>>

toolVars == <<prompt_sent, inf_filepath, inf_result, batch_pc, batch_listed, batch_pending,
              batch_results, batch_attempts>>

vars == <<transcripts_dir, cache_dir, aggVars, legacyVars, hybridVars,
          httpVars, txtVars, toolVars>>

---------------------------------------------------------------------------
(* Bounds *)

MaxItems == 2
MaxRuns == 2
MaxCalls == 3
MaxFiles == 3
MaxTxtFiles == 1
MaxValueLen == 2
MaxContentLen == 4
MaxAnalyses == 2
MaxCreates == 3
MaxOver == 10
MaxTokens == 6
MaxTranscripts == 2

---------------------------------------------------------------------------
(* JSON values *)

JNull == [json |-> "null"]
JArr(elems) == [json |-> "array", elems |-> elems]
JStr(s) == [json |-> "string", str |-> s]
JNum(n) == [json |-> "number", num |-> n]

\* a value that is a JSON object (a dict), not a wrapped scalar or array
IsObject(v) == "json" \notin DOMAIN v

\* dict.get(key, default)
Get(d, k, dflt) == IF k \in DOMAIN d THEN d[k] ELSE dflt

\* no call or request made yet
NoCall == [no_call |-> TRUE]

\* a file that does not exist, and a file whose content json.load rejects
NoFile == [no_file |-> TRUE]
InvalidJson == [invalid_json |-> TRUE]

HYBRID_SUFFIX == "_analysis_hybrid.json"
CRITICAL_SUFFIX == "_analysis_critical.json"

\* an analysis file name: the stem, split on " _ ", and the suffix
AnalysisName(stem, suffix) == [stem |-> stem, suffix |-> suffix]

\* Path.glob("*" + suffix): the names of the existing files with the suffix
Glob(dir, suffix) == {f \in DOMAIN dir : f.suffix = suffix /\ dir[f] # NoFile}

---------------------------------------------------------------------------
(* generate_productreps_data.py *)

VALID_CATEGORIES ==
    {"learn_from_legends", "build_ai_products", "speak_ai_fluently",
     "ai_superpowers"}

\* File stems are held split on " _ " (name.split(" _ ")).
\* guest_part.split("(")[0].strip() over the guest parts in use
BeforeParen(s) ==
    CASE s = "Alice Chen (Stripe)" -> "Alice Chen"
      [] OTHER -> s

\* a variant of extract_metadata_from_analysis whose filename fallback gives
\* the category build_ai_products
extract_metadata_from_analysis_defaulting_to_ai(data, filename) ==
    IF "episode_metadata" \in DOMAIN data
    THEN LET meta == data.episode_metadata
         IN  [podcast |-> Get(meta, "podcast", "Unknown Podcast"),
              episode |-> Get(meta, "episode", "Unknown Episode"),
              guest |-> Get(meta, "guest", "Unknown Guest"),
              category |-> Get(meta, "primary_category", "learn_from_legends")]
    ELSE LET parts == filename.stem
         IN  IF Len(parts) >= 2
             THEN [podcast |-> "Lenny's Podcast",
                   episode |-> parts[1],
                   guest |-> BeforeParen(parts[Len(parts)]),
                   category |-> "build_ai_products"]
             ELSE [podcast |-> "Unknown Podcast",
                   episode |-> parts[1],
                   guest |-> "Unknown Guest",
                   category |-> "build_ai_products"]

extract_metadata_from_analysis(data, filename) ==
    IF "episode_metadata" \in DOMAIN data
    THEN LET meta == data.episode_metadata
         IN  [podcast |-> Get(meta, "podcast", "Unknown Podcast"),
              episode |-> Get(meta, "episode", "Unknown Episode"),
              guest |-> Get(meta, "guest", "Unknown Guest"),
              category |-> Get(meta, "primary_category", "learn_from_legends")]
    ELSE LET parts == filename.stem
         IN  IF Len(parts) >= 2
             THEN [podcast |-> "Lenny's Podcast",
                   episode |-> parts[1],
                   guest |-> BeforeParen(parts[Len(parts)]),
                   category |-> "learn_from_legends"]
             ELSE [podcast |-> "Unknown Podcast",
                   episode |-> parts[1],
                   guest |-> "Unknown Guest",
                   category |-> "learn_from_legends"]

obviousness_to_spicy(level) ==
    CASE level = "truly_non_obvious" -> 5
      [] level = "moderately_non_obvious" -> 3
      [] level = "best_available" -> 1
      [] OTHER -> 2

\* a variant of InsightCategory that ignores the insight's own category
InsightCategoryDerivedFromPrimaryOnly(takeaway, primary_category) ==
    primary_category

\* lines 181-183: the category of one insight card
InsightCategory(takeaway, primary_category) ==
    LET insight_category == Get(takeaway, "category", primary_category)
    IN  IF insight_category \notin VALID_CATEGORIES
        THEN primary_category
        ELSE insight_category

\* a variant of SpicyRating that always derives the rating from the tier
SpicyRatingIgnoringDeclared(takeaway) ==
    obviousness_to_spicy(Get(takeaway, "obviousness_level",
                             "moderately_non_obvious"))

\* lines 186-187: the spicy rating of one insight card
SpicyRating(takeaway) ==
    Get(takeaway, "spicy_rating",
        obviousness_to_spicy(Get(takeaway, "obviousness_level",
                                 "moderately_non_obvious")))

\* a variant of Uuid4 that derives the id from the insight's position
Uuid4FromRank(drawn, i) == i

\* line 190: str(uuid.uuid4()), the i-th draw after `drawn` earlier ones;
\* uuid4 values are taken to be fresh: each draw differs from every earlier
\* one (they are random 122-bit values)
Uuid4(drawn, i) == drawn + i

\* lines 189-231: the card of the i-th takeaway (i counted from 1), in a
\* run without --with-ai; the scores and verdict blocks, copied from the
\* document, createdAt and the constant flags are left out
InsightCard(filename, data, metadata, takeaway, i, drawn) ==
    [id |-> Uuid4(drawn, i),
     podcastTitle |-> metadata.podcast,
     episodeTitle |-> metadata.episode,
     guest |-> metadata.guest,
     insight |-> Get(takeaway, "insight", ""),
     obviousnessLevel |-> Get(takeaway, "obviousness_level",
                              "moderately_non_obvious"),
     spicyRating |-> SpicyRating(takeaway),
     rank |-> Get(takeaway, "rank", i),
     category |-> InsightCategory(takeaway, metadata.category),
     podcastSourceId |-> metadata.podcast,
     sourceFile |-> filename,
     characteristics |-> Get(data, "characteristics", JArr(<<>>)),
     judgment |-> JNull]

\* a variant of Takeaways that reads the current key only
TakeawaysCurrentKeyOnly(data) == Get(data, "insights", <<>>)

\* line 175: the insight list, under the current key or else the legacy key
Takeaways(data) == Get(data, "insights", Get(data, "top_5_takeaways", <<>>))

\* The result of process_analysis_file: the cards, or raised; `drawn` counts
\* the uuid4() calls made, also those of cards built before a failure.  When
\* it raises, `cards` is its local list at that moment, which the caller
\* never sees.
process_analysis_file(filename, data, drawn) ==
    IF data = InvalidJson
    THEN [raised |-> TRUE, cards |-> <<>>, drawn |-> drawn]
    ELSE
    LET metadata == extract_metadata_from_analysis(data, filename)
        takeaways == Takeaways(data)
        bad == {i \in 1..Len(takeaways) : ~IsObject(takeaways[i])}
        firstBad == CHOOSE i \in bad : \A j \in bad : i <= j
    IN  IF bad # {}
        THEN [raised |-> TRUE,
              cards |-> [i \in 1..(firstBad - 1) |->
                           InsightCard(filename, data, metadata,
                                       takeaways[i], i, drawn)],
              drawn |-> drawn + firstBad - 1]
        ELSE [raised |-> FALSE,
              cards |-> [i \in 1..Len(takeaways) |->
                           InsightCard(filename, data, metadata,
                                       takeaways[i], i, drawn)],
              drawn |-> drawn + Len(takeaways)]

\* sorted(analysis_files): paths in lexicographic order
PathOrder ==
    <<<<"Pricing Power", "Alice Chen (Stripe)">>, <<"alice_pricing">>,
      <<"bob_growth">>>>

PathIndex(f) == CHOOSE k \in 1..Len(PathOrder) : PathOrder[k] = f.stem

RECURSIVE Sorted(_)
Sorted(files) ==
    IF files = {} THEN <<>>
    ELSE LET first == CHOOSE f \in files :
                         \A g \in files : PathIndex(f) <= PathIndex(g)
         IN  <<first>> \o Sorted(files \ {first})

\* a variant of ProcessAll that keeps the cards a file built before it
\* raised
RECURSIVE ProcessAllKeepingBuilt(_, _, _, _)
ProcessAllKeepingBuilt(dir, files, collected, drawn) ==
    IF files = <<>> THEN [all_insights |-> collected, drawn |-> drawn]
    ELSE LET r == process_analysis_file(Head(files), dir[Head(files)], drawn)
         IN  ProcessAllKeepingBuilt(dir, Tail(files), collected \o r.cards,
                                    r.drawn)

\* lines 259-267: the loop over the sorted files, one try/except per file
RECURSIVE ProcessAll(_, _, _, _)
ProcessAll(dir, files, collected, drawn) ==
    IF files = <<>> THEN [all_insights |-> collected, drawn |-> drawn]
    ELSE LET r == process_analysis_file(Head(files), dir[Head(files)], drawn)
         IN  ProcessAll(dir, Tail(files),
                        IF r.raised THEN collected
                        ELSE collected \o r.cards,
                        r.drawn)

Range(s) == {s[i] : i \in 1..Len(s)}

\* lines 270-276: set(...) over the cards; iterating a card's
\* characteristics raises TypeError when the value is not iterable
IndexRaises(cards) ==
    \E c \in Range(cards) : c.characteristics = JNull

\* list(set(...)): the members of the set, each once, in the iteration order
\* of the set, which for strings changes with the interpreter's hash seed
ListsOfSet(S) ==
    {l \in [1..Cardinality(S) -> S] : Range(l) = S}

\* a variant of IndexLists whose categories are the full enum
IndexListsOfEnum(cards) ==
    {[categories |-> cats, characteristics |-> chars, guests |-> gsts,
      podcasts |-> pods] :
        cats \in ListsOfSet(VALID_CATEGORIES),
        chars \in ListsOfSet(UNION {Range(c.characteristics.elems) :
                                       c \in Range(cards)}),
        gsts \in ListsOfSet({c.guest : c \in Range(cards)}),
        pods \in ListsOfSet({c.podcastTitle : c \in Range(cards)})}

\* lines 270-276: the index lists a run can build from the cards
IndexLists(cards) ==
    {[categories |-> cats, characteristics |-> chars, guests |-> gsts,
      podcasts |-> pods] :
        cats \in ListsOfSet({c.category : c \in Range(cards)}),
        chars \in ListsOfSet(UNION {Range(c.characteristics.elems) :
                                       c \in Range(cards)}),
        gsts \in ListsOfSet({c.guest : c \in Range(cards)}),
        pods \in ListsOfSet({c.podcastTitle : c \in Range(cards)})}

\* a variant of Output whose `sources` counts the files that gave cards
OutputCountingContributors(cards, analysis_files, lists) ==
    [version |-> "2.0",
     totalInsights |-> Len(cards),
     insights |-> cards,
     metadata |->
        [sources |-> Cardinality({c.sourceFile : c \in Range(cards)}),
         categories |-> lists.categories,
         characteristics |-> lists.characteristics,
         guests |-> lists.guests,
         podcasts |-> lists.podcasts]]

\* lines 279-291: the output structure (generatedAt is left out)
Output(cards, analysis_files, lists) ==
    [version |-> "2.0",
     totalInsights |-> Len(cards),
     insights |-> cards,
     metadata |->
        [sources |-> Cardinality(analysis_files),
         categories |-> lists.categories,
         characteristics |-> lists.characteristics,
         guests |-> lists.guests,
         podcasts |-> lists.podcasts]]

NoCatalog == [no_file |-> TRUE]

CatalogIds(cat) ==
    IF cat = NoCatalog THEN {} ELSE {c.id : c \in Range(cat.insights)}

\* main(): one aggregation run
main ==
    /\ runs < MaxRuns
    /\ LET analysis_files == Glob(transcripts_dir, HYBRID_SUFFIX)
           p == ProcessAll(transcripts_dir, Sorted(analysis_files), <<>>,
                           uuid_counter)
       IN  /\ uuid_counter' = p.drawn
           /\ all_insights' = p.all_insights
           /\ IF IndexRaises(p.all_insights)
              THEN /\ run_status' = "aborted"
                   /\ UNCHANGED <<catalog, last_run, earlier_ids>>
              ELSE /\ run_status' = "written"
                   /\ \E lists \in IndexLists(p.all_insights) :
                         /\ catalog' =
                               Output(p.all_insights, analysis_files, lists)
                         /\ last_run' =
                               [files |-> transcripts_dir, wrote |-> catalog']
                   /\ earlier_ids' = earlier_ids \cup CatalogIds(catalog)
    /\ runs' = runs + 1
    /\ UNCHANGED <<transcripts_dir, cache_dir, legacyVars, hybridVars, httpVars,
                   txtVars, toolVars>>

---------------------------------------------------------------------------
(* Input documents of the aggregation runs *)

AggNames == {AnalysisName(PathOrder[k], HYBRID_SUFFIX) : k \in 1..Len(PathOrder)}

RECURSIVE SeqsUpTo(_, _)
SeqsUpTo(S, n) ==
    IF n = 0 THEN {<<>>}
    ELSE LET shorter == SeqsUpTo(S, n - 1)
         IN  shorter \cup {Append(s, x) : s \in {t \in shorter : Len(t) = n - 1},
                                          x \in S}

PlainItem == [insight |-> "Charge for outcomes", rank |-> 1]

\* documents that vary in what makes a run fail: unparseable files, insight
\* entries that are not objects, a characteristics value that is null
AggDocs ==
    {InvalidJson} \cup
    {[insights |-> items, characteristics |-> chars] :
        items \in SeqsUpTo({PlainItem, JStr("not an object")}, MaxItems),
        chars \in {JArr(<<"tactical">>), JNull}}

AggDirs == [AggNames -> AggDocs \cup {NoFile}]

\* documents that vary in what decides a card's category and spicy rating:
\* the episode_metadata block and its primary_category, and each insight's
\* category, spicy_rating and obviousness_level (each present or absent)
Absent == [k \in {} |-> k]

CategoryChoices ==
    {Absent, [category |-> "ai_superpowers"], [category |-> "growth_hacks"]}

SpicyChoices == {Absent, [spicy_rating |-> 4], [spicy_rating |-> 7]}

LevelChoices ==
    {Absent} \cup
    {[obviousness_level |-> l] :
        l \in {"truly_non_obvious", "moderately_non_obvious", "best_available",
               "somewhat_obvious"}}

\* every category choice with no rating information and with a declared
\* rating beside the top tier; every other rating choice with no category
CardItems ==
    {[insight |-> "Charge for outcomes"] @@ c @@ r :
        c \in CategoryChoices,
        r \in {Absent,
               [spicy_rating |-> 4, obviousness_level |-> "truly_non_obvious"]}}
    \cup
    {[insight |-> "Charge for outcomes"] @@ r :
        r \in LevelChoices \cup SpicyChoices}

EpisodeMetadata ==
    [podcast |-> "Lenny's Podcast", episode |-> "Pricing Power",
     guest |-> "Alice Chen"]

MetadataChoices ==
    {Absent,
     [episode_metadata |-> EpisodeMetadata],
     [episode_metadata |->
        EpisodeMetadata @@ [primary_category |-> "build_ai_products"]],
     [episode_metadata |->
        EpisodeMetadata @@ [primary_category |-> "product_strategy"]]}

CardDocs ==
    {[insights |-> items, characteristics |-> JArr(<<"tactical">>)] @@ m :
        items \in SeqsUpTo(CardItems, MaxItems) \ {<<>>},
        m \in MetadataChoices}

\* one document in the directory; a document without episode_metadata takes
\* its metadata from the file name and is placed under each name
CardDirs ==
    {[f \in AggNames |-> IF f = g THEN d ELSE NoFile] :
        g \in AggNames,
        d \in {c \in CardDocs : "episode_metadata" \notin DOMAIN c}}
    \cup
    {[f \in AggNames |-> IF f.stem = PathOrder[2] THEN d ELSE NoFile] :
        d \in {c \in CardDocs : "episode_metadata" \in DOMAIN c}}

\* documents of both schema generations under names of both suffixes: the
\* insight list under `top_5_takeaways`, under `insights`, or under both
SchemaNames ==
    {AnalysisName(PathOrder[k], suffix) :
        k \in {2, 3}, suffix \in {HYBRID_SUFFIX, CRITICAL_SUFFIX}}

RankedItem ==
    [insight |-> "PageRank died in 2004-2005 when clicks took over",
     rank |-> 1, category |-> "ai_superpowers"]

SchemaLists == SeqsUpTo({PlainItem, RankedItem}, MaxItems)

SchemaShapes ==
    {[top_5_takeaways |-> l] : l \in SchemaLists}
    \cup {[insights |-> l] : l \in SchemaLists}
    \cup {[insights |-> <<>>, top_5_takeaways |-> l] :
            l \in SchemaLists \ {<<>>}}

SchemaDocs ==
    {d @@ [characteristics |-> chars] @@ m :
        d \in SchemaShapes,
        chars \in {JArr(<<>>), JArr(<<"tactical", "contrarian", "tactical">>)},
        m \in {Absent,
                [episode_metadata |->
                   EpisodeMetadata @@ [primary_category |-> "build_ai_products"]]}}

OtherDocs ==
    {[top_5_takeaways |-> <<PlainItem>>, characteristics |-> JArr(<<"tactical">>)],
     [insights |-> <<PlainItem>>, characteristics |-> JArr(<<"tactical">>),
      episode_metadata |->
         EpisodeMetadata @@ [primary_category |-> "build_ai_products"]],
     [insights |-> <<RankedItem>>, characteristics |-> JArr(<<"deep">>),
      episode_metadata |->
         [podcast |-> "Latent Space", episode |-> "Growth Loops",
          guest |-> "Bob Lee", primary_category |-> "speak_ai_fluently"]]}

\* one document, or one document beside one of OtherDocs
SchemaDirs ==
    {[f \in SchemaNames |-> IF f = g THEN d ELSE NoFile] :
        g \in SchemaNames, d \in SchemaDocs}
    \cup
    {[f \in SchemaNames |-> IF f = g THEN d ELSE IF f = h THEN o ELSE NoFile] :
        g \in SchemaNames, h \in SchemaNames, d \in SchemaDocs, o \in OtherDocs}

---------------------------------------------------------------------------
(* analyzer.py: the legacy analyzer and its cache *)

PodcastIds == {"alice_pricing", "bob_growth"}

\* line 265: cache/{podcast_id}_analysis_critical.json
CachePath(podcast_id) == AnalysisName(<<podcast_id>>, CRITICAL_SUFFIX)

\* What the model does in one call: the API call raises, or it returns a
\* response text that (fences stripped) json.loads rejects, parses to a value
\* that is not an object, or parses to an analysis document.
LlmAnalyses ==
    {[freshness_score |-> 3, insight_score |-> 7,
      top_5_takeaways |-> <<PlainItem>>, summary |-> "Pricing",
      characteristics |-> JArr(<<"tactical">>)],
     [insight_score |-> 4, top_5_takeaways |-> <<>>, summary |-> "Growth",
      characteristics |-> JArr(<<>>)]}

LlmOutcomes ==
    {[api |-> "raises"]} \cup
    {[api |-> "returns", response |-> r] :
        r \in {InvalidJson, JArr(<<>>)} \cup LlmAnalyses}

\* lines 229-238: the document returned when the analysis fails
FallbackDocument(e) ==
    [freshness_score |-> 5,
     freshness_reasoning |-> "Analysis failed",
     insight_score |-> 5,
     insight_reasoning |-> "Analysis failed",
     top_5_takeaways |-> <<>>,
     summary |-> "Analysis could not be completed.",
     characteristics |-> JArr(<<"error">>),
     error |-> e]

\* a variant of analyze_podcast_with_llm that answers an unparseable
\* response with an empty stamped document
analyze_podcast_with_llm_without_fallback(outcome, podcast_metadata, now) ==
    IF outcome.api = "raises" THEN FallbackDocument("APIError")
    ELSE IF outcome.response = InvalidJson \/ ~IsObject(outcome.response)
         THEN [analyzed_at |-> now, scoring_mode |-> "critical"]
    ELSE LET analysis ==
                 [analyzed_at |-> now,
                  model |-> "claude-sonnet-4-20250514",
                  scoring_mode |-> "critical"] @@ outcome.response
         IN  IF DOMAIN podcast_metadata # {}
             THEN [podcast_metadata |-> podcast_metadata] @@ analysis
             ELSE analysis

\* lines 185-238; `now` is datetime.now(), podcast_metadata a dict
analyze_podcast_with_llm(outcome, podcast_metadata, now) ==
    IF outcome.api = "raises" THEN FallbackDocument("APIError")
    ELSE IF outcome.response = InvalidJson
         THEN FallbackDocument("JSONDecodeError")
    ELSE IF ~IsObject(outcome.response) THEN FallbackDocument("TypeError")
    ELSE LET analysis ==
                 [analyzed_at |-> now,
                  model |-> "claude-sonnet-4-20250514",
                  scoring_mode |-> "critical"] @@ outcome.response
         IN  IF DOMAIN podcast_metadata # {}
             THEN [podcast_metadata |-> podcast_metadata] @@ analysis
             ELSE analysis

\* lines 252-259
load_metadata(podcast_id) ==
    IF metadata_json = NoFile THEN Absent
    ELSE Get(metadata_json, podcast_id, Absent)

\* lines 271-279: None when the file does not exist
load_analysis_cache(podcast_id) == cache_dir[CachePath(podcast_id)]

\* a variant of Cached that never takes the cache entry
CachedAlwaysFalsy(cached) == FALSE

\* line 290: `if cached:`; None and an empty dict are falsy
Cached(cached) == cached # NoFile /\ DOMAIN cached # {}

\* lines 282-309
analyze_podcast(podcast_id, use_cache, outcome) ==
    /\ calls < MaxCalls
    /\ calls' = calls + 1
    /\ last_call' = [podcast_id |-> podcast_id, use_cache |-> use_cache]
    /\ IF use_cache /\ Cached(load_analysis_cache(podcast_id))
       THEN /\ last_return' = [value |-> load_analysis_cache(podcast_id)]
            /\ UNCHANGED <<cache_dir, llm_calls, llm_outcome>>
       ELSE IF podcast_id \notin txt_files
       THEN /\ last_return' = [raised |-> "FileNotFoundError"]
            /\ UNCHANGED <<cache_dir, llm_calls, llm_outcome>>
       ELSE LET analysis == analyze_podcast_with_llm(
                                outcome, load_metadata(podcast_id), calls + 1)
            IN  /\ llm_calls' = llm_calls + 1
                /\ llm_outcome' = outcome
                /\ cache_dir' =
                      [cache_dir EXCEPT ![CachePath(podcast_id)] = analysis]
                /\ last_return' =
                      IF "freshness_score" \in DOMAIN analysis
                      THEN [value |-> analysis]
                      ELSE [raised |-> "KeyError"]
    /\ UNCHANGED <<transcripts_dir, txt_files, metadata_json, aggVars, hybridVars,
                 httpVars,
                   txtVars, toolVars>>

\* the operator deletes a cache file
delete_cache_file(podcast_id) ==
    /\ cache_dir[CachePath(podcast_id)] # NoFile
    /\ cache_dir' = [cache_dir EXCEPT ![CachePath(podcast_id)] = NoFile]
    /\ UNCHANGED <<transcripts_dir, aggVars, legacyVars, hybridVars, httpVars,
                   txtVars, toolVars>>

---------------------------------------------------------------------------
(* Text.  A string is a sequence of tokens: a token is one character, the  *)
(* three dashes "---" taken as a unit, or a word (a run of characters that *)
(* holds no whitespace, colon or dash and is never split).                 *)

SP == " "
NL == "\n"
COLON == ":"
DASHES == "---"

Whitespace == {SP, NL}

RECURSIVE LStrip(_)
LStrip(s) ==
    IF s # <<>> /\ Head(s) \in Whitespace THEN LStrip(Tail(s)) ELSE s

RECURSIVE RStrip(_)
RStrip(s) ==
    IF s # <<>> /\ s[Len(s)] \in Whitespace
    THEN RStrip(SubSeq(s, 1, Len(s) - 1)) ELSE s

\* str.strip()
Strip(s) == RStrip(LStrip(s))

\* str.lower(), over the tokens in use
Lower(s) == [i \in 1..Len(s) |-> IF s[i] = "A" THEN "a" ELSE s[i]]

\* the first position of a token in a string, 0 when it does not occur
Find(s, t) ==
    IF \A i \in 1..Len(s) : s[i] # t THEN 0
    ELSE CHOOSE i \in 1..Len(s) : s[i] = t /\ \A j \in 1..(i - 1) : s[j] # t

\* str.split(sep) for a one-token separator
RECURSIVE Split(_, _)
Split(s, sep) ==
    IF Find(s, sep) = 0 THEN <<s>>
    ELSE <<SubSeq(s, 1, Find(s, sep) - 1)>>
         \o Split(SubSeq(s, Find(s, sep) + 1, Len(s)), sep)

\* sep.join(pieces)
RECURSIVE Join(_, _)
Join(pieces, sep) ==
    IF pieces = <<>> THEN <<>>
    ELSE IF Len(pieces) = 1 THEN pieces[1]
    ELSE pieces[1] \o <<sep>> \o Join(Tail(pieces), sep)

---------------------------------------------------------------------------
(* analyzer_hybrid.py: parse_transcript_header *)

\* line 408: re.match(r'^---\s*\n(.*?)\n---\s*\n?(.*)$', content, re.DOTALL)
\* on content that starts with "---".  `\s*\n` ends at a newline p of the
\* whitespace run after the opening dashes, the last one tried first; the
\* lazy group then ends before the first "\n---" after p.
HeaderMatch(content) ==
    LET run == {i \in 2..Len(content) :
                   \A j \in 2..i : content[j] \in Whitespace}
        Closing(p) == {q \in (p + 1)..(Len(content) - 1) :
                          content[q] = NL /\ content[q + 1] = DASHES}
        opens == {p \in run : content[p] = NL /\ Closing(p) # {}}
    IN  IF opens = {} THEN [matched |-> FALSE]
        ELSE LET p == CHOOSE x \in opens : \A y \in opens : y <= x
                 q == CHOOSE x \in Closing(p) : \A y \in Closing(p) : x <= y
             IN  [matched |-> TRUE,
                  header_text |-> SubSeq(content, p + 1, q - 1),
                  rest |-> SubSeq(content, q + 2, Len(content))]

\* a variant of HeaderValue that splits the line at every colon
HeaderValueUpToNextColon(line) ==
    Strip(Split(SubSeq(line, Find(line, COLON) + 1, Len(line)), COLON)[1])

\* line 421-422: the value of a `key: value` line
HeaderValue(line) == Strip(SubSeq(line, Find(line, COLON) + 1, Len(line)))

\* lines 417-422: the metadata of the header lines; a later line of the
\* same key replaces an earlier one
RECURSIVE HeaderMetadata(_, _)
HeaderMetadata(lines, metadata) ==
    IF lines = <<>> THEN metadata
    ELSE LET line == Strip(Head(lines))
         IN  IF Find(line, COLON) # 0
             THEN LET key == Lower(Strip(SubSeq(line, 1, Find(line, COLON) - 1)))
                  IN  HeaderMetadata(Tail(lines),
                                     (key :> HeaderValue(line)) @@ metadata)
             ELSE HeaderMetadata(Tail(lines), metadata)

\* a variant of parse_transcript_header that returns the text unstripped
\* when it finds no header
parse_transcript_header_keeping_whitespace(text) ==
    LET content == Strip(text)
    IN  IF content = <<>> \/ content[1] # DASHES
        THEN [metadata |-> << >>, transcript |-> text]
        ELSE IF ~HeaderMatch(content).matched
        THEN [metadata |-> << >>, transcript |-> text]
        ELSE [metadata |->
                 HeaderMetadata(Split(HeaderMatch(content).header_text, NL),
                                << >>),
              transcript |-> Strip(HeaderMatch(content).rest)]

\* lines 384-424
parse_transcript_header(text) ==
    LET content == Strip(text)
    IN  IF content = <<>> \/ content[1] # DASHES
        THEN [metadata |-> << >>, transcript |-> content]
        ELSE IF ~HeaderMatch(content).matched
        THEN [metadata |-> << >>, transcript |-> content]
        ELSE [metadata |->
                 HeaderMetadata(Split(HeaderMatch(content).header_text, NL),
                                << >>),
              transcript |-> Strip(HeaderMatch(content).rest)]

---------------------------------------------------------------------------
(* add_episode.py: create_transcript_file *)

\* lines 41-56, over the tokens in use: lower-case, drop quotes, colons,
\* commas and full stops, turn dashes and spaces into underscores
SlugToken(t) ==
    CASE t = SP -> <<"_">>
      [] t = DASHES -> <<"_", "_", "_">>
      [] t = COLON -> << >>
      [] t = "A" -> <<"a">>
      [] t = "Alice" -> <<"alice">>
      [] t = "Chen" -> <<"chen">>
      [] t = "Pricing" -> <<"pricing">>
      [] t = "Power" -> <<"power">>
      [] OTHER -> <<t>>

RECURSIVE SlugTokens(_)
SlugTokens(text) ==
    IF text = <<>> THEN <<>>
    ELSE SlugToken(Head(text)) \o SlugTokens(Tail(text))

\* lines 54-55: while "__" in slug: slug = slug.replace("__", "_")
RECURSIVE CollapseUnderscores(_)
CollapseUnderscores(s) ==
    IF Len(s) < 2 THEN s
    ELSE IF s[1] = "_" /\ s[2] = "_" THEN CollapseUnderscores(Tail(s))
    ELSE <<s[1]>> \o CollapseUnderscores(Tail(s))

RECURSIVE StripUnderscores(_)
StripUnderscores(s) ==
    IF s # <<>> /\ Head(s) = "_" THEN StripUnderscores(Tail(s))
    ELSE IF s # <<>> /\ s[Len(s)] = "_"
         THEN StripUnderscores(SubSeq(s, 1, Len(s) - 1))
    ELSE s

slugify(text) == StripUnderscores(CollapseUnderscores(SlugTokens(text)))

\* str(counter), for the counters in use
CounterText(counter) == <<"1", "2", "3", "4", "5", "6", "7", "8", "9">>[counter]

\* lines 112-122: the file name {guest_slug}_{episode_slug}, then with _1,
\* _2, ... appended (counter 0 stands for no counter suffix; the extension
\* is left out; the episode slugs in use are shorter than the 30 characters
\* of line 113)
TranscriptPath(guest, episode, counter) ==
    slugify(guest) \o <<"_">> \o slugify(episode)
        \o (IF counter = 0 THEN <<>> ELSE <<"_", CounterText(counter)>>)

\* a variant of FreePath that never appends a counter
FreePathWithoutCounter(dir, guest, episode) ==
    TranscriptPath(guest, episode, 0)

\* lines 117-122: the first of the names that does not exist
FreePath(dir, guest, episode) ==
    TranscriptPath(guest, episode,
        CHOOSE n \in 0..Cardinality(DOMAIN dir) :
            /\ TranscriptPath(guest, episode, n) \notin DOMAIN dir
            /\ \A m \in 0..(n - 1) :
                  TranscriptPath(guest, episode, m) \in DOMAIN dir)

\* datetime.now().strftime('%Y-%m-%d')
Today == <<"2026-11-01">>

HeaderLine(key, value) == <<key, COLON, SP>> \o value

\* lines 124-152: the content written; an argument left at None is absent
\* from args
TranscriptContent(args) ==
    Join(<<<<DASHES>>,
           HeaderLine("podcast", args.podcast),
           HeaderLine("episode", args.episode),
           HeaderLine("guest", args.guest),
           HeaderLine("category", args.category),
           HeaderLine("date", IF Get(args, "date", <<>>) # <<>>
                              THEN args.date ELSE Today)>>
         \o (IF Get(args, "url", <<>>) # <<>>
             THEN <<HeaderLine("url", args.url)>> ELSE <<>>)
         \o <<<<DASHES>>, <<>>>>
         \o (IF Get(args, "transcript_content", <<>>) # <<>>
             THEN <<args.transcript_content>>
             ELSE <<<<"[PASTE TRANSCRIPT CONTENT BELOW THIS LINE]">>, <<>>>>),
         NL)

\* lines 93-154
create_transcript_file(args) ==
    /\ LET filepath == FreePath(txt_dir, args.guest, args.episode)
       IN  /\ txt_dir' = (filepath :> TranscriptContent(args)) @@ txt_dir
           /\ txt_args' = (filepath :> args) @@ txt_args
    /\ UNCHANGED <<transcripts_dir, cache_dir, aggVars, legacyVars, hybridVars,
                   httpVars, hdr_content, hdr_result, toolVars>>

\* the analyzer reads a transcript file and parses its header (lines 598-602)
parse_file(filepath) ==
    /\ hdr_content' = txt_dir[filepath]
    /\ hdr_result' =
          [path |-> filepath] @@ parse_transcript_header(txt_dir[filepath])
    /\ UNCHANGED <<transcripts_dir, cache_dir, aggVars, legacyVars, hybridVars,
                   httpVars, txt_dir, txt_args, toolVars>>

\* parse_transcript_header applied to a content
parse_content ==
    /\ hdr_result = NoCall
    /\ hdr_result' = parse_transcript_header(hdr_content)
    /\ UNCHANGED <<transcripts_dir, cache_dir, aggVars, legacyVars, hybridVars,
                   httpVars, txt_dir, txt_args, hdr_content, toolVars>>

\* strings of at most n tokens
Texts(alphabet, n) == SeqsUpTo(alphabet, n)

\* header values: with and without surrounding whitespace and line breaks,
\* and with a colon
HeaderValues ==
    Texts({"a", SP, NL}, MaxValueLen) \cup {<<COLON, "a">>, <<"a", COLON, SP>>}

BaseArgs ==
    [podcast |-> <<"Lenny's", SP, "Podcast">>,
     episode |-> <<"Pricing", SP, "Power">>,
     guest |-> <<"Alice", SP, "Chen">>,
     category |-> <<"build_ai_products">>,
     date |-> <<"2024-01-15">>]

EpisodeUrl == <<"https", COLON, "//example.com/ep1">>

\* one field varies at a time: the first header line, an inner line, the
\* date (replaced by today's date when empty) and the optional url
CreateArgs ==
    {[BaseArgs EXCEPT ![f] = v] @@ u :
        f \in {"podcast", "guest"}, v \in HeaderValues,
        u \in {Absent, [url |-> EpisodeUrl]}}
    \cup {[BaseArgs EXCEPT !.date = v] : v \in HeaderValues}
    \cup {BaseArgs @@ [url |-> v] : v \in HeaderValues}
    \cup {BaseArgs @@ [url |-> EpisodeUrl,
                       transcript_content |-> <<"a", NL, DASHES, NL, "a">>]}

\* calls whose names collide: the same guest and episode with different
\* bodies, episodes that differ in case only, and an episode whose slug ends
\* like a counter suffix
CollidingArgs ==
    {[BaseArgs EXCEPT !.guest = <<"a">>, !.episode = episode]
        @@ [transcript_content |-> body] :
        episode \in {<<"a">>, <<"A">>, <<"a", SP, "1">>}, body \in {<<"a">>, <<"A">>}}

\* file contents: every short text, and texts between two lines of dashes
RawContents ==
    Texts({"a", "A", SP, NL, COLON, DASHES}, MaxContentLen)
    \cup {<<DASHES, NL>> \o h \o <<NL, DASHES>> \o t :
            h \in Texts({"a", "A", SP, NL, COLON}, MaxContentLen - 1),
            t \in {<<>>, <<NL, "a", SP>>}}

---------------------------------------------------------------------------
(* analyzer_hybrid.py: analyze_podcast and the score normaliser *)

\* lines 464-471, in hundredths
weights ==
    [insight_density |-> 40, signal_to_noise |-> 20, actionability |-> 20,
     contrarian_index |-> 10, freshness |-> 5, host_quality |-> 5]

RECURSIVE Sum(_, _)
Sum(f, keys) ==
    IF keys = {} THEN 0
    ELSE LET k == CHOOSE x \in keys : TRUE
         IN  f[k] + Sum(f, keys \ {k})

\* line 474: round(overall, 1), from hundredths to tenths.  The float sum is
\* within rounding error of the exact sum: away from a tie the nearest tenth
\* is certain; at a tie (the exact sum ends in 5 hundredths) the float lies
\* just above or just below it, which `round_up` tells.
Round1(hundredths, round_up) ==
    IF hundredths % 10 = 5
    THEN IF round_up THEN hundredths \div 10 + 1 ELSE hundredths \div 10
    ELSE (hundredths + 5) \div 10

\* a variant of calculate_overall_score that keeps the model's own overall
calculate_overall_score_trusting_model(scores, round_up) ==
    IF "overall" \in DOMAIN scores THEN scores.overall.num
    ELSE Round1(Sum([dim \in DOMAIN weights |->
                        Get(scores, dim, 5) * weights[dim]], DOMAIN weights),
                round_up)

\* lines 460-474; sub-scores are integers, the result is in tenths
calculate_overall_score(scores, round_up) ==
    Round1(Sum([dim \in DOMAIN weights |->
                  Get(scores, dim, 5) * weights[dim]], DOMAIN weights),
           round_up)

\* lines 477-571: `metadata` is the transcript's metadata, `outcome` what the
\* model does (see LlmOutcomes), `now` is datetime.now()
hybrid_analyze_podcast(metadata, outcome, round_up, now) ==
    LET category0 == Get(metadata, "category", "learn_from_legends")
        category == IF category0 \notin VALID_CATEGORIES
                    THEN "learn_from_legends" ELSE category0
    IN  IF outcome.api = "raises" THEN [raised |-> "APIError"]
        ELSE IF outcome.response = InvalidJson
             THEN [raised |-> "JSONDecodeError"]
        ELSE IF ~IsObject(outcome.response) THEN [raised |-> "TypeError"]
        ELSE
        LET result == outcome.response
            rescored ==
                IF "scores" \in DOMAIN result
                THEN [result EXCEPT !.scores =
                        [overall |->
                            JNum(calculate_overall_score(result.scores,
                                                         round_up))]
                        @@ result.scores]
                ELSE result
            with_metadata ==
                IF "episode_metadata" \notin DOMAIN rescored
                THEN [episode_metadata |->
                        [podcast |-> Get(metadata, "podcast", "Unknown Podcast"),
                         episode |-> Get(metadata, "episode", "Unknown Episode"),
                         guest |-> Get(metadata, "guest", "Unknown Guest"),
                         primary_category |-> category]] @@ rescored
                ELSE rescored
        IN  [value |->
                [analyzed_at |-> now, model |-> "gpt-4o",
                 provider |-> "openai",
                 scoring_mode |-> "hybrid_critical_v2"] @@ with_metadata]

\* one call of analyze_podcast on the model's response
hybrid_call ==
    /\ hy_result = NoCall
    /\ hy_result' = hybrid_analyze_podcast(Absent, hy_response, hy_round_up, 1)
    /\ UNCHANGED <<transcripts_dir, cache_dir, aggVars, legacyVars,
                   hy_response, hy_round_up, httpVars,
                   txtVars, toolVars>>

ScoreValues == {1, 4, 7, 10}

ExampleScores ==
    [insight_density |-> 8, signal_to_noise |-> 6, actionability |-> 7,
     contrarian_index |-> 5, freshness |-> 4, host_quality |-> 6]

\* scores blocks: the six sub-scores, with or without a raw `overall`
ScoresBlocks ==
    {s @@ o :
        s \in [DOMAIN weights -> ScoreValues] \cup {ExampleScores},
        o \in {Absent, [overall |-> JNum(90)]}}
    \cup {[insight_density |-> 8, signal_to_noise |-> 6]}

HybridResponses ==
    {[api |-> "raises"],
     [api |-> "returns", response |-> InvalidJson],
     [api |-> "returns", response |-> JArr(<<>>)],
     [api |-> "returns", response |-> [insights |-> <<PlainItem>>]]}
    \cup
    {[api |-> "returns",
      response |-> [scores |-> s, insights |-> <<PlainItem>>]] :
        s \in ScoresBlocks}

---------------------------------------------------------------------------
(* analyzer.py and analyzer_hybrid.py: the transcript embedded in the prompt.
   A transcript body is a run of characters, given by its length. *)

\* the character budget of analyzer.py line 191
TRANSCRIPT_BUDGET == 50000

\* s[:limit] of a string of n characters has min(n, limit) characters
SliceLen(n, limit) == IF n > limit THEN limit ELSE n

\* analyzer.py line 191: ANALYSIS_PROMPT.format(transcript=transcript[:50000])
LegacyPromptTranscript(n) == SliceLen(n, TRANSCRIPT_BUDGET)

\* analyzer_hybrid.py lines 507-513: ANALYSIS_PROMPT.format(...,
\* transcript=transcript)
HybridPromptTranscript(n) == n

\* analyzer.py lines 185-238: one call on a transcript of n characters
legacy_prompt_call(n, outcome) ==
    /\ prompt_sent' =
          [analyzer |-> "legacy", transcript |-> n,
           embedded |-> LegacyPromptTranscript(n),
           returned |-> [value |-> analyze_podcast_with_llm(outcome, Absent, 1)]]
    /\ UNCHANGED <<transcripts_dir, cache_dir, aggVars, legacyVars, hybridVars,
                   httpVars, txtVars, inf_filepath, inf_result, batch_pc,
                   batch_listed, batch_pending, batch_results, batch_attempts>>

\* analyzer_hybrid.py lines 477-571: one call on a transcript of n characters
hybrid_prompt_call(n, outcome) ==
    /\ prompt_sent' =
          [analyzer |-> "hybrid", transcript |-> n,
           embedded |-> HybridPromptTranscript(n),
           returned |-> hybrid_analyze_podcast(Absent, outcome, FALSE, 1)]
    /\ UNCHANGED <<transcripts_dir, cache_dir, aggVars, legacyVars, hybridVars,
                   httpVars, txtVars, inf_filepath, inf_result, batch_pc,
                   batch_listed, batch_pending, batch_results, batch_attempts>>

\* transcript lengths on both sides of the budget
TranscriptLengths ==
    (TRANSCRIPT_BUDGET - MaxOver)..(TRANSCRIPT_BUDGET + MaxOver)

---------------------------------------------------------------------------
(* analyzer_hybrid.py: analyze_and_save *)

\* the string a text spells, over the texts in use
Str(text) ==
    CASE text = <<>> -> ""
      [] Len(text) = 1 -> text[1]
      [] text = <<"Lenny's", SP, "Podcast">> -> "Lenny's Podcast"
      [] text = <<"Pricing", SP, "Power">> -> "Pricing Power"
      [] text = <<"Alice", SP, "Chen">> -> "Alice Chen"
      [] text = <<"Alice", SP, "Pricing">> -> "Alice Pricing"
      [] text = <<"Bob", SP, "Growth">> -> "Bob Growth"
      [] text = <<"https", COLON, "//example.com/ep1">>
            -> "https://example.com/ep1"

\* the metadata dict of a parsed header, as a record of strings
MetadataDict(metadata) ==
    [k \in {Str(key) : key \in DOMAIN metadata} |->
        Str(metadata[CHOOSE key \in DOMAIN metadata : Str(key) = k])]

\* the path of a transcript, over the transcript names in use
TranscriptFile(stem) ==
    CASE stem = <<"alice_pricing">>
            -> <<"transcripts", "/", "alice", "_", "pricing", ".", "txt">>
      [] stem = <<"bob_growth">>
            -> <<"transcripts", "/", "bob", "_", "growth", ".", "txt">>

\* the last position of token t in s, 0 when there is none
RFind(s, t) ==
    IF \E i \in 1..Len(s) : s[i] = t
    THEN CHOOSE i \in 1..Len(s) :
            s[i] = t /\ \A j \in (i + 1)..Len(s) : s[j] # t
    ELSE 0

\* line 437: os.path.basename(filepath)
Basename(filepath) == SubSeq(filepath, RFind(filepath, "/") + 1, Len(filepath))

\* line 438: filename.rsplit('.', 1)[0]
BeforeLastDot(filename) ==
    IF RFind(filename, ".") = 0 THEN filename
    ELSE SubSeq(filename, 1, RFind(filename, ".") - 1)

\* str.replace(old, ''): every occurrence of `old`, left to right
RECURSIVE Remove(_, _)
Remove(s, old) ==
    IF Len(s) < Len(old) THEN s
    ELSE IF SubSeq(s, 1, Len(old)) = old
         THEN Remove(SubSeq(s, Len(old) + 1, Len(s)), old)
    ELSE <<Head(s)>> \o Remove(Tail(s), old)

\* lines 441-442: the three suffixes, removed in this order
NameWithoutSuffixes(name) ==
    Remove(Remove(Remove(name, <<"_", "analysis", "_", "hybrid">>),
                  <<"_", "analysis">>),
           <<"_", "transcript">>)

\* line 445: name.split('_')
UnderscoreParts(name) == Split(name, "_")

\* str.title(), over the words in use; other tokens have no letters
Title(word) ==
    CASE word = "alice" -> "Alice"
      [] word = "pricing" -> "Pricing"
      [] word = "bob" -> "Bob"
      [] word = "growth" -> "Growth"
      [] word = "lenny" -> "Lenny"
      [] word = "SHOW" -> "Show"
      [] word = "transcript" -> "Transcript"
      [] OTHER -> word

\* ' '.join(parts).title().replace('_', ' '): the parts hold no underscore
TitleJoin(parts) ==
    LET joined == Join(parts, SP)
    IN  [i \in 1..Len(joined) |-> Title(joined[i])]

\* parts[a-1:b] of Python, 1-based and inclusive here
Slice(parts, a, b) ==
    SubSeq(parts, a, IF b > Len(parts) THEN Len(parts) ELSE b)

\* a variant of infer_metadata_from_filename in which every field without
\* tokens keeps its own default
infer_metadata_from_filename_own_defaults(filepath) ==
    LET parts == UnderscoreParts(
                     NameWithoutSuffixes(BeforeLastDot(Basename(filepath))))
    IN  IF Len(parts) >= 2
        THEN [podcast |-> TitleJoin(Slice(parts, 1, 2)),
              guest |-> IF Len(parts) > 2 THEN TitleJoin(Slice(parts, 3, 4))
                        ELSE <<"Unknown Guest">>,
              episode |-> IF Len(parts) > 4
                          THEN TitleJoin(Slice(parts, 5, Len(parts)))
                          ELSE <<"Unknown Episode">>,
              category |-> <<"learn_from_legends">>]
        ELSE [podcast |-> <<"Unknown Podcast">>, guest |-> <<"Unknown Guest">>,
              episode |-> <<"Unknown Episode">>,
              category |-> <<"learn_from_legends">>]

\* lines 427-457; the values are texts
infer_metadata_from_filename(filepath) ==
    LET parts == UnderscoreParts(
                     NameWithoutSuffixes(BeforeLastDot(Basename(filepath))))
        guest == IF Len(parts) > 2 THEN TitleJoin(Slice(parts, 3, 4))
                 ELSE <<"Unknown Guest">>
    IN  IF Len(parts) >= 2
        THEN [podcast |-> TitleJoin(Slice(parts, 1, 2)),
              guest |-> guest,
              episode |-> IF Len(parts) > 4
                          THEN TitleJoin(Slice(parts, 5, Len(parts)))
                          ELSE guest,
              category |-> <<"learn_from_legends">>]
        ELSE [podcast |-> <<"Unknown Podcast">>, guest |-> <<"Unknown Guest">>,
              episode |-> <<"Unknown Episode">>,
              category |-> <<"learn_from_legends">>]

\* lines 605-608: the inferred metadata, as a record of strings
InferredDict(filepath) ==
    [k \in DOMAIN infer_metadata_from_filename(filepath) |->
        Str(infer_metadata_from_filename(filepath)[k])]

\* one call of infer_metadata_from_filename on a path
infer_call ==
    /\ inf_result = NoCall
    /\ inf_result' = infer_metadata_from_filename(inf_filepath)
    /\ UNCHANGED <<transcripts_dir, cache_dir, aggVars, legacyVars, hybridVars,
                   httpVars, txtVars, prompt_sent, inf_filepath, batch_pc,
                   batch_listed, batch_pending, batch_results, batch_attempts>>

\* file names of 1..MaxTokens words joined by underscores, with or without
\* an analysis suffix, in transcripts/
NameWords == {"lenny", "SHOW", "transcript"}

InferPaths ==
    {<<"transcripts", "/">>
        \o Join([i \in 1..Len(ws) |-> <<ws[i]>>], "_") \o suffix
        \o <<".", "txt">> :
        ws \in SeqsUpTo(NameWords, MaxTokens) \ {<<>>},
        suffix \in {<<>>, <<"_", "analysis">>,
                    <<"_", "analysis", "_", "hybrid">>}}

\* lines 623-640: the summary printed after the file is saved reads these
\* keys and raises KeyError when one is missing
SummaryRaises(result) ==
    \/ "scores" \notin DOMAIN result
    \/ ~({"overall", "insight_density", "signal_to_noise", "actionability",
          "contrarian_index", "freshness"} \subseteq DOMAIN result.scores)
    \/ "verdict" \notin DOMAIN result
    \/ ~({"tldr", "worth_it"} \subseteq DOMAIN result.verdict)
    \/ \E i \in 1..Len(Get(result, "insights", <<>>)) :
          /\ i <= 3
          /\ ~({"rank", "insight"} \subseteq DOMAIN result.insights[i])

\* a variant of AnalyzeTranscript that stands a default document in for a
\* response that does not parse
AnalyzeTranscriptWithFallback(metadata, outcome, round_up, now) ==
    IF outcome.api = "returns" /\ outcome.response = InvalidJson
    THEN [value |-> FallbackDocument("JSONDecodeError")]
    ELSE hybrid_analyze_podcast(metadata, outcome, round_up, now)

\* line 613: result = analyze_podcast(transcript, metadata)
AnalyzeTranscript(metadata, outcome, round_up, now) ==
    hybrid_analyze_podcast(metadata, outcome, round_up, now)

\* lines 574-654: analyze_and_save(transcripts/{stem}.txt); `outcome` is what
\* the model does in this call
analyze_and_save(stem, outcome) ==
    /\ calls < MaxAnalyses
    /\ stem \in DOMAIN txt_dir
    /\ calls' = calls + 1
    /\ hy_response' = outcome
    /\ LET parsed == parse_transcript_header(txt_dir[stem])
           metadata == IF parsed.metadata = << >>
                       THEN InferredDict(TranscriptFile(stem))
                       ELSE MetadataDict(parsed.metadata)
           result == AnalyzeTranscript(metadata, outcome, hy_round_up, calls + 1)
       IN  IF "raised" \in DOMAIN result
           THEN /\ hy_result' = result
                /\ UNCHANGED transcripts_dir
           ELSE /\ transcripts_dir' =
                      [transcripts_dir EXCEPT
                          ![AnalysisName(stem, HYBRID_SUFFIX)] = result.value]
                /\ hy_result' = IF SummaryRaises(result.value)
                                THEN [raised |-> "KeyError"] ELSE result
    /\ UNCHANGED <<cache_dir, aggVars, txt_files, metadata_json, llm_calls,
                   last_call, last_return, llm_outcome, hy_round_up, httpVars,
                   txtVars, toolVars>>

\* the operator deletes an analysis file
remove_analysis_file(f) ==
    /\ transcripts_dir[f] # NoFile
    /\ transcripts_dir' = [transcripts_dir EXCEPT ![f] = NoFile]
    /\ UNCHANGED <<cache_dir, aggVars, legacyVars, hybridVars, httpVars,
                   txtVars, toolVars>>

---------------------------------------------------------------------------
(* add_judgments.py *)

\* lines 9-144: the scenarios, by key phrase (those whose phrase occurs in
\* an insight in use)
JUDGMENT_SCENARIOS ==
    [p \in {"PageRank died in 2004-2005"} |->
        [scenario |-> "You're building an AI product. Where should you invest for long-term moat?",
         correctOption |-> "B"]]

\* lines 163-164: the key phrases that occur in an insight text, in the
\* order of the dict
KeyPhrasesIn(insight) ==
    IF insight = "PageRank died in 2004-2005 when clicks took over"
    THEN <<"PageRank died in 2004-2005">> ELSE <<>>

\* lines 147-175
add_judgments ==
    /\ catalog # NoCatalog
    /\ catalog' =
          [catalog EXCEPT !.insights =
              [i \in 1..Len(catalog.insights) |->
                  LET insight == catalog.insights[i]
                  IN  IF insight.rank = 1 /\ KeyPhrasesIn(insight.insight) # <<>>
                      THEN [insight EXCEPT !.judgment =
                              JUDGMENT_SCENARIOS[KeyPhrasesIn(insight.insight)[1]]]
                      ELSE insight]]
    /\ UNCHANGED <<transcripts_dir, cache_dir, all_insights, last_run,
                   run_status, runs, uuid_counter, earlier_ids, legacyVars,
                   hybridVars, httpVars, txtVars, toolVars>>

---------------------------------------------------------------------------
(* Inputs of the pipeline: transcripts, old analysis files, model responses *)

TranscriptStems == {<<"alice_pricing">>, <<"bob_growth">>}

\* transcripts/alice_pricing.txt has the header create_transcript_file
\* writes, with category build_ai_products; transcripts/bob_growth.txt has
\* no header
AliceTranscripts ==
    {TranscriptContent(BaseArgs @@ [transcript_content |-> <<"a", SP, "a">>])}

\* the insights of an analysed episode: the first is ranked 1 and carries a
\* key phrase of JUDGMENT_SCENARIOS
EpisodeItems ==
    <<[insight |-> "PageRank died in 2004-2005 when clicks took over",
       rank |-> 1],
      [insight |-> "Charge for outcomes", rank |-> 2]>>

\* an analysis file of the old format, without an episode_metadata block
OldDocument ==
    [insights |-> EpisodeItems, characteristics |-> JArr(<<"tactical">>)]

Verdict == [tldr |-> "Worth it", worth_it |-> TRUE]

\* what the model answers: text that is not JSON, a complete document, a
\* document without scores or verdict whose characteristics are null
PipelineResponses ==
    {[api |-> "returns", response |-> InvalidJson],
     [api |-> "returns",
      response |-> [scores |-> [overall |-> JNum(90)] @@ ExampleScores,
                    verdict |-> Verdict,
                    insights |-> EpisodeItems,
                    characteristics |-> JArr(<<"tactical", "deep">>)]],
     [api |-> "returns",
      response |-> [insights |-> EpisodeItems, characteristics |-> JNull]]}

---------------------------------------------------------------------------
(* app.py: the serving layer *)

Dir(name) == IF name = "cache" THEN cache_dir ELSE transcripts_dir

\* a variant of ScanOrder that scans transcripts/ before cache/
ScanOrderTranscriptsFirst ==
    <<<<"transcripts", CRITICAL_SUFFIX>>, <<"transcripts", HYBRID_SUFFIX>>,
      <<"cache", CRITICAL_SUFFIX>>, <<"cache", HYBRID_SUFFIX>>>>

\* lines 43-51: the globs in scan order
ScanOrder ==
    <<<<"cache", CRITICAL_SUFFIX>>, <<"cache", HYBRID_SUFFIX>>,
      <<"transcripts", CRITICAL_SUFFIX>>, <<"transcripts", HYBRID_SUFFIX>>>>

\* analysis_files: the files of each glob in turn (within one glob the
\* directory's order is taken to be the order of the names)
RECURSIVE AnalysisFilesFrom(_)
AnalysisFilesFrom(k) ==
    IF k > Len(ScanOrder) THEN <<>>
    ELSE LET dir == ScanOrder[k][1]
             found == Sorted(Glob(Dir(dir), ScanOrder[k][2]))
         IN  [i \in 1..Len(found) |-> [dir |-> dir, name |-> found[i]]]
             \o AnalysisFilesFrom(k + 1)

analysis_files == AnalysisFilesFrom(1)

ScoreKeys ==
    {"overall", "insight_density", "signal_to_noise", "actionability",
     "contrarian_index", "freshness", "host_quality"}

TrulyNonObviousCount(takeaways) ==
    Cardinality({i \in 1..Len(takeaways) :
        Get(takeaways[i], "obviousness_level", "") = "truly_non_obvious"})

\* a variant of LoadEpisode that lists a missing legacy freshness_score as 0
LoadEpisodeMissingScoreZero(name, data) ==
    IF data = InvalidJson THEN [raised |-> "JSONDecodeError"]
    ELSE IF ~IsObject(data) THEN [raised |-> "AttributeError"]
    ELSE
    LET episode_id == name.stem
        is_hybrid == "scores" \in DOMAIN data /\ IsObject(data.scores)
        takeaways == Get(data, "top_5_takeaways", <<>>)
        top_insight == IF takeaways # <<>>
                       THEN Get(takeaways[1], "insight", "") ELSE ""
    IN  IF \E i \in 1..Len(takeaways) : ~IsObject(takeaways[i])
        THEN [raised |-> "AttributeError"]
        ELSE IF is_hybrid
        THEN IF ~(ScoreKeys \subseteq DOMAIN data.scores)
             THEN [raised |-> "KeyError"]
             ELSE [value |->
                    [id |-> episode_id,
                     format |-> "hybrid",
                     overall_score |-> data.scores.overall,
                     insight_density |-> data.scores.insight_density,
                     signal_to_noise |-> data.scores.signal_to_noise,
                     actionability |-> data.scores.actionability,
                     contrarian_index |-> data.scores.contrarian_index,
                     freshness |-> data.scores.freshness,
                     host_quality |-> data.scores.host_quality,
                     tldr |-> Get(Get(data, "verdict", Absent), "tldr", ""),
                     worth_it |->
                        Get(Get(data, "verdict", Absent), "worth_it", FALSE),
                     top_5_takeaways |-> takeaways,
                     top_insight |-> top_insight,
                     truly_non_obvious_count |-> TrulyNonObviousCount(takeaways),
                     summary |-> Get(data, "summary", "")]]
        ELSE [value |->
               [id |-> episode_id,
                format |-> "old",
                overall_score |->
                    JNum((Get(data, "freshness_score", 5)
                          + Get(data, "insight_score", 5)) * 5),
                insight_density |-> Get(data, "insight_score", 5),
                freshness |-> Get(data, "freshness_score", 0),
                signal_to_noise |-> 5,
                actionability |-> 5,
                contrarian_index |-> 5,
                host_quality |-> 5,
                tldr |-> Get(data, "summary", ""),
                worth_it |-> Get(data, "insight_score", 5) >= 6,
                top_5_takeaways |-> takeaways,
                top_insight |-> top_insight,
                truly_non_obvious_count |-> TrulyNonObviousCount(takeaways),
                summary |-> Get(data, "summary", "")]]

\* lines 56-150: the episode built from one analysis file, or the exception
\* that makes load_episodes skip the file (title, verdict texts and the
\* rejected-insight list are left out)
LoadEpisode(name, data) ==
    IF data = InvalidJson THEN [raised |-> "JSONDecodeError"]
    ELSE IF ~IsObject(data) THEN [raised |-> "AttributeError"]
    ELSE
    LET episode_id == name.stem
        is_hybrid == "scores" \in DOMAIN data /\ IsObject(data.scores)
        takeaways == Get(data, "top_5_takeaways", <<>>)
        top_insight == IF takeaways # <<>>
                       THEN Get(takeaways[1], "insight", "") ELSE ""
    IN  IF \E i \in 1..Len(takeaways) : ~IsObject(takeaways[i])
        THEN [raised |-> "AttributeError"]
        ELSE IF is_hybrid
        THEN IF ~(ScoreKeys \subseteq DOMAIN data.scores)
             THEN [raised |-> "KeyError"]
             ELSE [value |->
                    [id |-> episode_id,
                     format |-> "hybrid",
                     overall_score |-> data.scores.overall,
                     insight_density |-> data.scores.insight_density,
                     signal_to_noise |-> data.scores.signal_to_noise,
                     actionability |-> data.scores.actionability,
                     contrarian_index |-> data.scores.contrarian_index,
                     freshness |-> data.scores.freshness,
                     host_quality |-> data.scores.host_quality,
                     tldr |-> Get(Get(data, "verdict", Absent), "tldr", ""),
                     worth_it |->
                        Get(Get(data, "verdict", Absent), "worth_it", FALSE),
                     top_5_takeaways |-> takeaways,
                     top_insight |-> top_insight,
                     truly_non_obvious_count |-> TrulyNonObviousCount(takeaways),
                     summary |-> Get(data, "summary", "")]]
        ELSE [value |->
               [id |-> episode_id,
                format |-> "old",
                overall_score |->
                    JNum((Get(data, "freshness_score", 5)
                          + Get(data, "insight_score", 5)) * 5),
                insight_density |-> Get(data, "insight_score", 5),
                freshness |-> Get(data, "freshness_score", 5),
                signal_to_noise |-> 5,
                actionability |-> 5,
                contrarian_index |-> 5,
                host_quality |-> 5,
                tldr |-> Get(data, "summary", ""),
                worth_it |-> Get(data, "insight_score", 5) >= 6,
                top_5_takeaways |-> takeaways,
                top_insight |-> top_insight,
                truly_non_obvious_count |-> TrulyNonObviousCount(takeaways),
                summary |-> Get(data, "summary", "")]]

\* lines 55-150: the episodes of the files that load, in scan order
RECURSIVE LoadAll(_)
LoadAll(files) ==
    IF files = <<>> THEN <<>>
    ELSE LET r == LoadEpisode(Head(files).name,
                              Dir(Head(files).dir)[Head(files).name])
         IN  (IF "raised" \in DOMAIN r THEN <<>> ELSE <<r.value>>)
             \o LoadAll(Tail(files))

\* lines 153-158: keep the first episode of each id
RECURSIVE UniqueEpisodes(_, _)
UniqueEpisodes(episodes, seen_ids) ==
    IF episodes = <<>> THEN <<>>
    ELSE LET ep == Head(episodes)
         IN  IF ep.id \notin seen_ids
             THEN <<ep>> \o UniqueEpisodes(Tail(episodes), seen_ids \cup {ep.id})
             ELSE UniqueEpisodes(Tail(episodes), seen_ids)

\* line 161: list.sort(key=overall_score, reverse=True), a stable sort; it
\* raises TypeError when two keys are compared that are not both numbers
SortRaises(episodes) ==
    /\ Len(episodes) >= 2
    /\ \E i \in 1..Len(episodes) : episodes[i].overall_score = JNull

RECURSIVE InsertByScore(_, _)
InsertByScore(sorted, ep) ==
    IF sorted = <<>> THEN <<ep>>
    ELSE IF Head(sorted).overall_score.num >= ep.overall_score.num
         THEN <<Head(sorted)>> \o InsertByScore(Tail(sorted), ep)
         ELSE <<ep>> \o sorted

RECURSIVE SortByScore(_)
SortByScore(episodes) ==
    IF Len(episodes) <= 1 THEN episodes
    ELSE InsertByScore(SortByScore(SubSeq(episodes, 1, Len(episodes) - 1)),
                       episodes[Len(episodes)])

\* lines 35-163
load_episodes ==
    LET unique_episodes == UniqueEpisodes(LoadAll(analysis_files), {})
    IN  IF SortRaises(unique_episodes) THEN [raised |-> "TypeError"]
        ELSE [value |-> SortByScore(unique_episodes)]

\* lines 174-195: sum(scores) raises when a score is not a number (the
\* averages are left out)
StatsRaises(episodes) ==
    \E i \in 1..Len(episodes) : episodes[i].overall_score = JNull

calculate_stats(episodes) ==
    [total |-> Len(episodes),
     high_quality |->
        Cardinality({i \in 1..Len(episodes) :
                        episodes[i].overall_score.num >= 70}),
     worth_listening |->
        Cardinality({i \in 1..Len(episodes) : episodes[i].worth_it})]

\* lines 233-246: GET /api/episodes
list_episodes ==
    /\ http_request' = [route |-> "/api/episodes"]
    /\ http_response' =
          LET loaded == load_episodes
          IN  IF "raised" \in DOMAIN loaded \/ StatsRaises(loaded.value)
              THEN [status |-> 500]
              ELSE [status |-> 200,
                    episodes |-> loaded.value,
                    stats |-> calculate_stats(loaded.value),
                    total |-> Len(loaded.value)]
    /\ UNCHANGED <<transcripts_dir, cache_dir, aggVars, legacyVars, hybridVars,
                   txtVars, toolVars>>

\* lines 249-264: GET /api/episode/{episode_id}
get_episode(episode_id) ==
    /\ http_request' = [route |-> "/api/episode", episode_id |-> episode_id]
    /\ http_response' =
          LET loaded == load_episodes
          IN  IF "raised" \in DOMAIN loaded THEN [status |-> 500]
              ELSE LET found == {i \in 1..Len(loaded.value) :
                                    loaded.value[i].id = episode_id}
                   IN  IF found = {} THEN [status |-> 404]
                       ELSE [status |-> 200,
                             episode |-> loaded.value[
                                 CHOOSE i \in found : \A j \in found : i <= j]]
    /\ UNCHANGED <<transcripts_dir, cache_dir, aggVars, legacyVars, hybridVars,
                   txtVars, toolVars>>

\* the body of GET /api/episodes (lines 236-244)
EpisodesResponse ==
    LET loaded == load_episodes
    IN  IF "raised" \in DOMAIN loaded \/ StatsRaises(loaded.value)
        THEN [status |-> 500]
        ELSE [status |-> 200,
              episodes |-> loaded.value,
              stats |-> calculate_stats(loaded.value),
              total |-> Len(loaded.value)]

\* lines 267-275: GET /api/podcasts returns transcripts_metadata.json, or the
\* episode list when there is no such file
list_podcasts ==
    /\ http_request' = [route |-> "/api/podcasts"]
    /\ http_response' =
          IF metadata_json = NoFile THEN EpisodesResponse
          ELSE IF metadata_json = InvalidJson THEN [status |-> 500]
          ELSE [status |-> 200, body |-> metadata_json]
    /\ UNCHANGED <<transcripts_dir, cache_dir, aggVars, txt_files,
                   metadata_json, calls, llm_calls, last_call, last_return,
                   llm_outcome, hybridVars, txtVars, toolVars>>

\* a variant of analyze_api that caches a placeholder analysis for a podcast
\* it does not find
analyze_api_caching(podcast_id, use_cache) ==
    /\ http_request' = [route |-> "/api/analyze", podcast_id |-> podcast_id,
                        use_cache |-> use_cache]
    /\ LET loaded == load_episodes
           found == IF "raised" \in DOMAIN loaded THEN {}
                    ELSE {i \in 1..Len(loaded.value) :
                             loaded.value[i].id = podcast_id}
       IN  IF "raised" \in DOMAIN loaded
           THEN http_response' = [status |-> 500] /\ UNCHANGED cache_dir
           ELSE IF found = {}
           THEN /\ http_response' = [status |-> 404]
                /\ cache_dir' =
                      [cache_dir EXCEPT
                          ![AnalysisName(podcast_id, CRITICAL_SUFFIX)] =
                              FallbackDocument("APIError")]
           ELSE /\ http_response' =
                      [status |-> 200,
                       episode |-> loaded.value[
                           CHOOSE i \in found : \A j \in found : i <= j]]
                /\ UNCHANGED cache_dir
    /\ UNCHANGED <<transcripts_dir, aggVars, legacyVars, hybridVars,
                   txtVars, toolVars>>

\* lines 278-296: GET /api/analyze/{podcast_id}?use_cache=...
analyze_api(podcast_id, use_cache) ==
    /\ http_request' = [route |-> "/api/analyze", podcast_id |-> podcast_id,
                        use_cache |-> use_cache]
    /\ http_response' =
          LET loaded == load_episodes
          IN  IF "raised" \in DOMAIN loaded THEN [status |-> 500]
              ELSE LET found == {i \in 1..Len(loaded.value) :
                                    loaded.value[i].id = podcast_id}
                   IN  IF found = {} THEN [status |-> 404]
                       ELSE [status |-> 200,
                             episode |-> loaded.value[
                                 CHOOSE i \in found : \A j \in found : i <= j]]
    /\ UNCHANGED <<transcripts_dir, cache_dir, aggVars, legacyVars, hybridVars,
                   txtVars, toolVars>>

\* lines 299-308: GET /api/health
health_check ==
    /\ http_request' = [route |-> "/api/health"]
    /\ http_response' =
          LET loaded == load_episodes
          IN  IF "raised" \in DOMAIN loaded THEN [status |-> 500]
              ELSE [status |-> 200, status_text |-> "healthy",
                    episodes_loaded |-> Len(loaded.value)]
    /\ UNCHANGED <<transcripts_dir, cache_dir, aggVars, legacyVars, hybridVars,
                   txtVars, toolVars>>

\* analysis documents of the two schema generations: a legacy document, a
\* legacy document without freshness_score and without takeaways, a current
\* document
LegacyDocument ==
    [freshness_score |-> 3, insight_score |-> 7,
     top_5_takeaways |->
        <<[insight |-> "Charge for outcomes",
           obviousness_level |-> "truly_non_obvious"],
          [insight |-> "Ship weekly", obviousness_level |-> "best_available"]>>,
     summary |-> "Pricing, legacy cut"]

CurrentDocument ==
    [scores |-> [overall |-> JNum(68)] @@ ExampleScores,
     verdict |-> [tldr |-> "Worth it", worth_it |-> TRUE],
     insights |->
        <<[insight |-> "PageRank died in 2004-2005 when clicks took over",
           obviousness_level |-> "truly_non_obvious"]>>,
     summary |-> "Pricing, current cut"]

ListingDocs ==
    {LegacyDocument,
     [insight_score |-> 4, top_5_takeaways |-> <<>>,
      summary |-> "Growth, legacy cut"],
     CurrentDocument}

\* analysis documents as the serving layer tells them apart
ServeDocs ==
    {InvalidJson,
     [scores |-> [overall |-> JNum(68)] @@ ExampleScores,
      verdict |-> [tldr |-> "Worth it", worth_it |-> TRUE],
      summary |-> "Pricing, first cut", insights |-> <<PlainItem>>],
     [scores |-> [overall |-> JNum(40)] @@ [d \in DOMAIN weights |-> 4],
      summary |-> "Pricing, second cut", insights |-> <<PlainItem>>],
     [scores |-> [overall |-> JNum(62), insight_density |-> 8],
      summary |-> "Pricing, no sub-scores"],
     [scores |-> [overall |-> JNull] @@ ExampleScores,
      summary |-> "Pricing, no overall"],
     [freshness_score |-> 3, insight_score |-> 7,
      top_5_takeaways |->
         <<[insight |-> "Charge for outcomes",
            obviousness_level |-> "truly_non_obvious"]>>,
      summary |-> "Pricing, legacy cut",
      characteristics |-> JArr(<<"tactical">>)]}

ServeNames ==
    {AnalysisName(<<id>>, suffix) :
        id \in PodcastIds, suffix \in {CRITICAL_SUFFIX, HYBRID_SUFFIX}}

ServeSlots == {"cache", "transcripts"} \X ServeNames

---------------------------------------------------------------------------
(* batch_analyze_existing.py *)

V2_SUFFIX == "_analysis_v2.json"

\* lines 24-28: possible_analysis_files
ANALYSIS_SUFFIXES == {HYBRID_SUFFIX, V2_SUFFIX, CRITICAL_SUFFIX}

\* lines 15-34: the transcripts without an analysis file of any pattern
find_unanalyzed_transcripts ==
    {stem \in DOMAIN txt_dir :
        \A suffix \in ANALYSIS_SUFFIXES :
            transcripts_dir[AnalysisName(stem, suffix)] = NoFile}

\* what one run of analyzer_hybrid.py in a subprocess does: it exits 0,
\* exits non-zero, is killed after the 300 s timeout, or cannot be started
\* (subprocess.run raises)
SubprocessOutcomes == {"exit_0", "exit_nonzero", "timeout", "raises"}

\* lines 37-64: the value analyze_transcript returns
analyze_transcript(outcome) == outcome = "exit_0"

\* a variant of Remaining in which the loop ends at the first failure
RemainingUntilFailure(pending, success) ==
    IF success THEN Tail(pending) ELSE << >>

\* line 97: the for loop goes on to the next transcript whatever the result
Remaining(pending, success) == Tail(pending)

\* lines 67-95: main up to the loop; `order` is the order in which glob
\* lists the transcripts, `present` whether analyzer_hybrid.py exists,
\* `answer` what the operator types
batch_start(order, present, answer) ==
    /\ batch_pc = "idle"
    /\ Range(order) = find_unanalyzed_transcripts
    /\ Len(order) = Cardinality(find_unanalyzed_transcripts)
    /\ batch_pc' = IF ~present THEN "exited"
                   ELSE IF order = << >> THEN "nothing_to_do"
                   ELSE IF answer \notin {"y", "yes"} THEN "cancelled"
                   ELSE "running"
    /\ IF present /\ order # << >> /\ answer \in {"y", "yes"}
       THEN /\ batch_listed' = order
            /\ batch_pending' = order
            /\ batch_attempts' = [stem \in Range(order) |-> << >>]
       ELSE UNCHANGED <<batch_listed, batch_pending, batch_attempts>>
    /\ batch_results' = << >>
    /\ UNCHANGED <<transcripts_dir, cache_dir, aggVars, legacyVars, hybridVars,
                   httpVars, txtVars, prompt_sent, inf_filepath, inf_result>>

\* lines 97-100: one iteration of the loop; `outcome` is what the subprocess
\* does and `wrote` whether it saved the analysis file before it ended (it
\* has when it exits 0, it may have when it fails after saving or is killed)
batch_attempt(outcome, wrote) ==
    /\ batch_pc = "running"
    /\ batch_pending # << >>
    /\ outcome = "exit_0" => wrote
    /\ outcome = "raises" => ~wrote
    /\ LET stem == Head(batch_pending)
           success == analyze_transcript(outcome)
       IN  /\ batch_results' =
                 Append(batch_results, [file |-> stem, success |-> success])
           /\ batch_attempts' =
                 [batch_attempts EXCEPT ![stem] = Append(@, outcome)]
           /\ batch_pending' = Remaining(batch_pending, success)
           /\ transcripts_dir' =
                 IF wrote
                 THEN [transcripts_dir EXCEPT
                          ![AnalysisName(stem, HYBRID_SUFFIX)] = CurrentDocument]
                 ELSE transcripts_dir
    /\ UNCHANGED <<cache_dir, aggVars, legacyVars, hybridVars, httpVars,
                   txtVars, prompt_sent, inf_filepath, inf_result, batch_pc,
                   batch_listed>>

\* lines 102-122: the summary after the loop
batch_summary ==
    /\ batch_pc = "running"
    /\ batch_pending = << >>
    /\ batch_pc' = "done"
    /\ UNCHANGED <<transcripts_dir, cache_dir, aggVars, legacyVars, hybridVars,
                   httpVars, txtVars, prompt_sent, inf_filepath, inf_result,
                   batch_listed, batch_pending, batch_results, batch_attempts>>

\* the transcripts of the directory
BatchNames == <<"alice_pricing", "bob_growth", "carol_ai", "dan_ops", "eve_ml">>

BatchStems == {<<BatchNames[k]>> : k \in 1..MaxTranscripts}

\* a name is not there, is a transcript without analysis, or is a
\* transcript with an analysis file of one of the patterns
BatchDirs ==
    [BatchStems -> {"no_transcript", "unanalyzed"} \cup ANALYSIS_SUFFIXES]

---------------------------------------------------------------------------
(* Specifications: one per program *)

LegacyIdle ==
    /\ txt_files = {}
    /\ metadata_json = NoFile
    /\ calls = 0
    /\ llm_calls = 0
    /\ last_call = NoCall
    /\ last_return = NoCall
    /\ llm_outcome = NoCall

HybridIdle ==
    /\ hy_response = NoCall
    /\ hy_round_up = FALSE
    /\ hy_result = NoCall

HttpIdle ==
    /\ http_request = NoCall
    /\ http_response = NoCall

TxtIdle ==
    /\ txt_dir = << >>
    /\ txt_args = << >>
    /\ hdr_content = << >>
    /\ hdr_result = NoCall

ToolIdle ==
    /\ prompt_sent = NoCall
    /\ inf_filepath = << >>
    /\ inf_result = NoCall
    /\ batch_pc = "idle"
    /\ batch_listed = << >>
    /\ batch_pending = << >>
    /\ batch_results = << >>
    /\ batch_attempts = << >>

AggregatorIdle ==
    /\ catalog = NoCatalog
    /\ all_insights = <<>>
    /\ last_run = NoCall
    /\ run_status = "none"
    /\ runs = 0
    /\ uuid_counter = 0
    /\ earlier_ids = {}

InitAggregator ==
    /\ transcripts_dir \in AggDirs \cup CardDirs \cup SchemaDirs
    /\ cache_dir = << >>
    /\ AggregatorIdle
    /\ LegacyIdle
    /\ HybridIdle
    /\ HttpIdle
    /\ TxtIdle
    /\ ToolIdle

NextAggregator == main

SpecAggregator == InitAggregator /\ [][NextAggregator]_vars

InitLegacy ==
    /\ cache_dir = [f \in {CachePath(id) : id \in PodcastIds} |-> NoFile]
    /\ transcripts_dir = << >>
    /\ txt_files \in SUBSET PodcastIds
    /\ metadata_json \in
          {NoFile, [alice_pricing |-> [title |-> "Pricing Power"]]}
    /\ calls = 0
    /\ llm_calls = 0
    /\ last_call = NoCall
    /\ last_return = NoCall
    /\ llm_outcome = NoCall
    /\ AggregatorIdle
    /\ HybridIdle
    /\ HttpIdle
    /\ TxtIdle
    /\ ToolIdle

NextLegacy ==
    \/ \E podcast_id \in PodcastIds, use_cache \in BOOLEAN,
          outcome \in LlmOutcomes :
          analyze_podcast(podcast_id, use_cache, outcome)
    \/ \E podcast_id \in PodcastIds : delete_cache_file(podcast_id)

SpecLegacy == InitLegacy /\ [][NextLegacy]_vars

InitHybrid ==
    /\ hy_response \in HybridResponses
    /\ hy_round_up \in BOOLEAN
    /\ hy_result = NoCall
    /\ transcripts_dir = << >>
    /\ cache_dir = << >>
    /\ AggregatorIdle
    /\ LegacyIdle
    /\ HttpIdle
    /\ TxtIdle
    /\ ToolIdle

NextHybrid == hybrid_call

SpecHybrid == InitHybrid /\ [][NextHybrid]_vars

InitServe ==
    /\ \E slots \in {sl \in SUBSET ServeSlots : Cardinality(sl) <= MaxFiles} :
         \E docs \in [slots -> ServeDocs] :
            /\ cache_dir =
                  [n \in ServeNames |->
                     IF <<"cache", n>> \in slots
                     THEN docs[<<"cache", n>>] ELSE NoFile]
            /\ transcripts_dir =
                  [n \in ServeNames |->
                     IF <<"transcripts", n>> \in slots
                     THEN docs[<<"transcripts", n>>] ELSE NoFile]
    /\ AggregatorIdle
    /\ LegacyIdle
    /\ HybridIdle
    /\ HttpIdle
    /\ TxtIdle
    /\ ToolIdle

NextServe ==
    \/ list_episodes
    \/ \E episode_id \in {<<id>> : id \in PodcastIds} : get_episode(episode_id)

SpecServe == InitServe /\ [][NextServe]_vars

InitListing ==
    /\ \E slots \in {sl \in SUBSET ServeSlots : Cardinality(sl) <= MaxFiles} :
         \E docs \in [slots -> ListingDocs] :
            /\ cache_dir =
                  [n \in ServeNames |->
                     IF <<"cache", n>> \in slots
                     THEN docs[<<"cache", n>>] ELSE NoFile]
            /\ transcripts_dir =
                  [n \in ServeNames |->
                     IF <<"transcripts", n>> \in slots
                     THEN docs[<<"transcripts", n>>] ELSE NoFile]
    /\ txt_files = {}
    /\ metadata_json \in
          {NoFile, [alice_pricing |-> [title |-> "Pricing Power"]]}
    /\ calls = 0
    /\ llm_calls = 0
    /\ last_call = NoCall
    /\ last_return = NoCall
    /\ llm_outcome = NoCall
    /\ AggregatorIdle
    /\ HybridIdle
    /\ HttpIdle
    /\ TxtIdle
    /\ ToolIdle

NextListing ==
    \/ list_episodes
    \/ \E episode_id \in {<<id>> : id \in PodcastIds} : get_episode(episode_id)
    \/ list_podcasts
    \/ \E podcast_id \in {<<id>> : id \in PodcastIds}, use_cache \in BOOLEAN :
          analyze_api(podcast_id, use_cache)
    \/ health_check

SpecListing == InitListing /\ [][NextListing]_vars

InitCollide ==
    /\ transcripts_dir = << >>
    /\ cache_dir = << >>
    /\ AggregatorIdle
    /\ LegacyIdle
    /\ HybridIdle
    /\ HttpIdle
    /\ TxtIdle
    /\ ToolIdle

NextCollide ==
    /\ Cardinality(DOMAIN txt_dir) < MaxCreates
    /\ \E args \in CollidingArgs : create_transcript_file(args)

SpecCollide == InitCollide /\ [][NextCollide]_vars

InitPipeline ==
    /\ \E alice \in AliceTranscripts :
         txt_dir = (<<"alice_pricing">> :> alice)
                   @@ (<<"bob_growth">> :> <<"a", NL, "a">>)
    /\ \E old \in {NoFile, OldDocument} :
         transcripts_dir =
            [f \in {AnalysisName(stem, HYBRID_SUFFIX) :
                       stem \in TranscriptStems} |->
                IF f.stem = <<"alice_pricing">> THEN old ELSE NoFile]
    /\ txt_args = << >>
    /\ hdr_content = << >>
    /\ hdr_result = NoCall
    /\ cache_dir = << >>
    /\ AggregatorIdle
    /\ LegacyIdle
    /\ HybridIdle
    /\ HttpIdle
    /\ ToolIdle

NextPipeline ==
    \/ \E stem \in TranscriptStems, outcome \in PipelineResponses :
          analyze_and_save(stem, outcome)
    \/ \E f \in DOMAIN transcripts_dir : remove_analysis_file(f)
    \/ main
    \/ add_judgments

SpecPipeline == InitPipeline /\ [][NextPipeline]_vars

InitAddEpisode ==
    /\ transcripts_dir = << >>
    /\ cache_dir = << >>
    /\ AggregatorIdle
    /\ LegacyIdle
    /\ HybridIdle
    /\ HttpIdle
    /\ TxtIdle
    /\ ToolIdle

NextAddEpisode ==
    \/ /\ Cardinality(DOMAIN txt_dir) < MaxTxtFiles
       /\ \E args \in CreateArgs : create_transcript_file(args)
    \/ \E filepath \in DOMAIN txt_dir : parse_file(filepath)

SpecAddEpisode == InitAddEpisode /\ [][NextAddEpisode]_vars

InitParse ==
    /\ hdr_content \in RawContents
    /\ hdr_result = NoCall
    /\ txt_dir = << >>
    /\ txt_args = << >>
    /\ transcripts_dir = << >>
    /\ cache_dir = << >>
    /\ AggregatorIdle
    /\ LegacyIdle
    /\ HybridIdle
    /\ HttpIdle
    /\ ToolIdle

NextParse == parse_content

SpecParse == InitParse /\ [][NextParse]_vars

InitPrompt ==
    /\ transcripts_dir = << >>
    /\ cache_dir = << >>
    /\ AggregatorIdle
    /\ LegacyIdle
    /\ HybridIdle
    /\ HttpIdle
    /\ TxtIdle
    /\ ToolIdle

NextPrompt ==
    \E n \in TranscriptLengths, outcome \in LlmOutcomes :
        \/ legacy_prompt_call(n, outcome)
        \/ hybrid_prompt_call(n, outcome)

SpecPrompt == InitPrompt /\ [][NextPrompt]_vars

InitBatch ==
    /\ \E dir \in BatchDirs :
          /\ txt_dir = [stem \in {x \in BatchStems : dir[x] # "no_transcript"}
                           |-> <<"a">>]
          /\ transcripts_dir =
                [f \in {AnalysisName(stem, suffix) :
                           stem \in BatchStems, suffix \in ANALYSIS_SUFFIXES}
                    |-> IF dir[f.stem] = f.suffix THEN CurrentDocument
                        ELSE NoFile]
    /\ txt_args = << >>
    /\ hdr_content = << >>
    /\ hdr_result = NoCall
    /\ cache_dir = << >>
    /\ AggregatorIdle
    /\ LegacyIdle
    /\ HybridIdle
    /\ HttpIdle
    /\ ToolIdle

NextBatch ==
    \/ \E order \in SeqsUpTo(BatchStems, MaxTranscripts),
          present \in BOOLEAN, answer \in {"y", "n"} :
            batch_start(order, present, answer)
    \/ \E outcome \in SubprocessOutcomes, wrote \in BOOLEAN :
          batch_attempt(outcome, wrote)
    \/ batch_summary

\* every attempt ends (the subprocess is killed after 300 s), so a run that
\* started goes on to its summary
SpecBatch == InitBatch /\ [][NextBatch]_vars /\ WF_vars(NextBatch)

InitInfer ==
    /\ inf_filepath \in InferPaths
    /\ inf_result = NoCall
    /\ prompt_sent = NoCall
    /\ batch_pc = "idle"
    /\ batch_listed = << >>
    /\ batch_pending = << >>
    /\ batch_results = << >>
    /\ batch_attempts = << >>
    /\ transcripts_dir = << >>
    /\ cache_dir = << >>
    /\ AggregatorIdle
    /\ LegacyIdle
    /\ HybridIdle
    /\ HttpIdle
    /\ TxtIdle

NextInfer == infer_call

SpecInfer == InitInfer /\ [][NextInfer]_vars

---------------------------------------------------------------------------
(* Properties of the aggregation runs *)

Written == run_status = "written"

\* the cards of the catalog that come from one file, in catalog order
CardsOf(f) ==
    LET FromFile(c) == c.sourceFile = f
    IN  SelectSeq(catalog.insights, FromFile)

\* the insight list of a document, as the aggregator reads it
TakeawaysOf(f) ==
    LET data == IF transcripts_dir[f] \in {InvalidJson, NoFile}
                 THEN Absent ELSE transcripts_dir[f]
    IN  Get(data, "insights", Get(data, "top_5_takeaways", <<>>))

Processes(f) ==
    /\ transcripts_dir[f] # InvalidJson
    /\ \A i \in 1..Len(TakeawaysOf(f)) : IsObject(TakeawaysOf(f)[i])

PrimaryCategory(f) ==
    extract_metadata_from_analysis(transcripts_dir[f], f).category

\* C1 (as claimed): after an aggregation run over any set of analysis files
\* the run has completed and written the catalog, and the catalog holds the
\* cards of every file that processes without error, whatever files raise.
C1_RunSkipsFailingFiles ==
    runs > 0 =>
        /\ Written
        /\ \A f \in Glob(transcripts_dir, HYBRID_SUFFIX) :
              Processes(f) => Len(CardsOf(f)) = Len(TakeawaysOf(f))

\* C2: the cards of a catalog carry pairwise different ids, and none of
\* them is an id written by an earlier aggregation run.
C2_FreshIds ==
    catalog # NoCatalog =>
        /\ \A i, j \in 1..Len(catalog.insights) :
              i # j => catalog.insights[i].id # catalog.insights[j].id
        /\ CatalogIds(catalog) \cap earlier_ids = {}

C2_Witness ==
    /\ runs = 2
    /\ Written
    /\ Len(catalog.insights) >= 2
    /\ earlier_ids # {}

\* C6: a card's category is the insight's own category when that is one of
\* the four enum values, and the document's primary category otherwise.
C6_CardCategory ==
    Written =>
        \A f \in Glob(transcripts_dir, HYBRID_SUFFIX) :
            \A k \in 1..Len(CardsOf(f)) :
                LET item == TakeawaysOf(f)[k]
                IN  CardsOf(f)[k].category =
                        IF /\ "category" \in DOMAIN item
                           /\ item.category \in VALID_CATEGORIES
                        THEN item.category
                        ELSE PrimaryCategory(f)

C6_Witness ==
    /\ Written
    /\ \E f \in Glob(transcripts_dir, HYBRID_SUFFIX) :
          /\ Len(CardsOf(f)) >= 2
          /\ PrimaryCategory(f) = "build_ai_products"
          /\ \E k \in 1..Len(CardsOf(f)) :
                /\ "category" \in DOMAIN TakeawaysOf(f)[k]
                /\ TakeawaysOf(f)[k].category = "ai_superpowers"
          /\ \E k \in 1..Len(CardsOf(f)) :
                /\ "category" \in DOMAIN TakeawaysOf(f)[k]
                /\ TakeawaysOf(f)[k].category \notin VALID_CATEGORIES

\* C7 (as claimed): every card of the catalog has a category among the four
\* enum values, whatever categories the input documents declare.
C7_CategoryInEnum ==
    Written =>
        \A c \in Range(catalog.insights) : c.category \in VALID_CATEGORIES

\* the spicy rating derived from an obviousness tier, as the spec states it
TierRating(level) ==
    CASE level = "truly_non_obvious" -> 5
      [] level = "moderately_non_obvious" -> 3
      [] level = "best_available" -> 1
      [] OTHER -> 2

\* C8 (as claimed): the spicy rating is the declared one when present, and
\* otherwise 5, 3 or 1 for the three tiers and 2 for any other or absent tier.
C8_SpicyAbsentTierIsTwo ==
    Written =>
        \A f \in Glob(transcripts_dir, HYBRID_SUFFIX) :
            \A k \in 1..Len(CardsOf(f)) :
                LET item == TakeawaysOf(f)[k]
                IN  CardsOf(f)[k].spicyRating =
                        IF "spicy_rating" \in DOMAIN item
                        THEN item.spicy_rating
                        ELSE IF "obviousness_level" \in DOMAIN item
                             THEN TierRating(item.obviousness_level)
                             ELSE 2

\* C8 (amended): the spicy rating is the declared one when present, and
\* otherwise 5, 3 or 1 for the three tiers, 2 for any other tier, and 3 when
\* the insight has no tier (an absent tier counts as moderately_non_obvious).
C8_SpicyRating ==
    Written =>
        \A f \in Glob(transcripts_dir, HYBRID_SUFFIX) :
            \A k \in 1..Len(CardsOf(f)) :
                LET item == TakeawaysOf(f)[k]
                IN  CardsOf(f)[k].spicyRating =
                        IF "spicy_rating" \in DOMAIN item
                        THEN item.spicy_rating
                        ELSE IF "obviousness_level" \in DOMAIN item
                             THEN TierRating(item.obviousness_level)
                             ELSE 3

C8_Witness ==
    /\ Written
    /\ \E f \in Glob(transcripts_dir, HYBRID_SUFFIX) :
          /\ Len(CardsOf(f)) >= 2
          /\ \E k \in 1..Len(CardsOf(f)) :
                /\ "spicy_rating" \in DOMAIN TakeawaysOf(f)[k]
                /\ "obviousness_level" \in DOMAIN TakeawaysOf(f)[k]
          /\ \E k \in 1..Len(CardsOf(f)) :
                /\ "spicy_rating" \notin DOMAIN TakeawaysOf(f)[k]
                /\ "obviousness_level" \notin DOMAIN TakeawaysOf(f)[k]

\* C9 (as claimed): every card's spicy rating is an integer from 1 to 5,
\* declared or derived.
C9_SpicyInRange ==
    Written =>
        \A c \in Range(catalog.insights) : c.spicyRating \in 1..5

\* the cards the last run collected from one file
CollectedFrom(f) ==
    LET FromFile(c) == c.sourceFile = f
    IN  SelectSeq(all_insights, FromFile)

\* the document of a file, with no keys when the file does not parse
DocOf(f) ==
    IF transcripts_dir[f] \in {InvalidJson, NoFile}
    THEN Absent ELSE transcripts_dir[f]

\* the list under a key of a document, empty when the key is absent
ListUnder(f, key) == Get(DocOf(f), key, <<>>)

\* the card is the one built from the k-th item of a list
CardOfItem(card, item, k, f) ==
    /\ card.insight = Get(item, "insight", "")
    /\ card.rank = Get(item, "rank", k)
    /\ card.sourceFile = f

\* the cards collected from f are those of the list, one per item, in order
CardsFromList(f, list) ==
    /\ Len(CollectedFrom(f)) = Len(list)
    /\ \A k \in 1..Len(list) : CardOfItem(CollectedFrom(f)[k], list[k], k, f)

\* C11 (as claimed): a run processes every file named *_analysis_critical.json
\* and every file named *_analysis_hybrid.json: each such file that parses
\* contributes one card per insight to the cards the run collects.
C11_BothSuffixesProcessed ==
    runs > 0 =>
        \A f \in Glob(transcripts_dir, HYBRID_SUFFIX)
                 \cup Glob(transcripts_dir, CRITICAL_SUFFIX) :
            Processes(f) => Len(CollectedFrom(f)) = Len(TakeawaysOf(f))

\* C12 (as claimed): a processed document with a non-empty list under
\* `top_5_takeaways` only or under `insights` only yields one card per item,
\* all cards having the same fields; a processed document with a non-empty
\* list under either key yields at least one card.
C12_EitherKeyYieldsCards ==
    runs > 0 =>
        /\ \A c, d \in Range(all_insights) : DOMAIN c = DOMAIN d
        /\ \A f \in Glob(transcripts_dir, HYBRID_SUFFIX) :
              Processes(f) =>
                /\ "insights" \notin DOMAIN DocOf(f)
                      => CardsFromList(f, ListUnder(f, "top_5_takeaways"))
                /\ "top_5_takeaways" \notin DOMAIN DocOf(f)
                      => CardsFromList(f, ListUnder(f, "insights"))
                /\ (ListUnder(f, "insights") # <<>>
                      \/ ListUnder(f, "top_5_takeaways") # <<>>)
                      => CollectedFrom(f) # <<>>

\* C12 (amended): a processed document yields one card per item of its
\* `insights` list when it has that key and of its `top_5_takeaways` list
\* otherwise, all cards having the same fields; so the cards are non-empty
\* when `insights` is non-empty, or absent with `top_5_takeaways` non-empty.
C12_CurrentKeyPrecedes ==
    runs > 0 =>
        /\ \A c, d \in Range(all_insights) : DOMAIN c = DOMAIN d
        /\ \A f \in Glob(transcripts_dir, HYBRID_SUFFIX) :
              Processes(f) =>
                /\ "insights" \notin DOMAIN DocOf(f)
                      => CardsFromList(f, ListUnder(f, "top_5_takeaways"))
                /\ "insights" \in DOMAIN DocOf(f)
                      => CardsFromList(f, ListUnder(f, "insights"))

\* a run collected cards from a legacy document and from a current one
C12_Witness ==
    /\ runs > 0
    /\ \E f, g \in Glob(transcripts_dir, HYBRID_SUFFIX) :
          /\ "insights" \notin DOMAIN DocOf(f)
          /\ Len(ListUnder(f, "top_5_takeaways")) >= 2
          /\ CardsFromList(f, ListUnder(f, "top_5_takeaways"))
          /\ "top_5_takeaways" \notin DOMAIN DocOf(g)
          /\ ListUnder(g, "insights") # <<>>
          /\ CardsFromList(g, ListUnder(g, "insights"))

Hit(f) == cache_dir[f] # NoFile

\* C3: an analyze_podcast(id, use_cache=True) call made while the cache holds
\* an entry for id returns that entry, makes no model call and leaves the
\* cache as it was; so it is for every such call until the entry is deleted.
C3_CacheHitReturnsEntry ==
    [][(/\ calls' = calls + 1
        /\ last_call'.use_cache
        /\ Hit(CachePath(last_call'.podcast_id)))
       => (/\ last_return' =
                [value |-> cache_dir[CachePath(last_call'.podcast_id)]]
           /\ llm_calls' = llm_calls
           /\ cache_dir' = cache_dir)]_vars

\* the last call returned an entry that an earlier call had cached
C3_Witness ==
    /\ calls = MaxCalls
    /\ last_call.use_cache
    /\ Hit(CachePath(last_call.podcast_id))
    /\ last_return = [value |-> cache_dir[CachePath(last_call.podcast_id)]]
    /\ "analyzed_at" \in DOMAIN last_return.value
    /\ last_return.value.analyzed_at < calls - 1
    /\ llm_calls = 1

\* C4 (as claimed): every document in the cache comes from a successful
\* analysis; none is the document of a failed model call or failed parse.
C4_CacheHoldsOnlySuccessfulAnalyses ==
    \A f \in DOMAIN cache_dir :
        Hit(f) => "error" \notin DOMAIN cache_dir[f]

---------------------------------------------------------------------------
(* Properties of the hybrid analyzer's score normaliser *)

\* analyze_podcast returned a document whose response had all six sub-scores
HyScored ==
    /\ "value" \in DOMAIN hy_result
    /\ "scores" \in DOMAIN hy_response.response
    /\ DOMAIN weights \subseteq DOMAIN hy_response.response.scores

\* C5: the stored overall is the weighted sum of the six sub-scores rounded
\* to one decimal (a nearest tenth of it), whatever the raw `overall` was;
\* recomputing it from the stored scores gives it again; the sub-scores
\* 8, 6, 7, 5, 4, 6 give 6.8.
C5_OverallIsWeightedSum ==
    HyScored =>
        LET raw == hy_response.response.scores
            stored == hy_result.value.scores
            exact == 40 * raw.insight_density + 20 * raw.signal_to_noise
                     + 20 * raw.actionability + 10 * raw.contrarian_index
                     + 5 * raw.freshness + 5 * raw.host_quality
            overall == stored.overall.num
        IN  /\ 10 * overall - 5 <= exact
            /\ exact <= 10 * overall + 5
            /\ calculate_overall_score(stored, hy_round_up) = overall
            /\ [dim \in DOMAIN weights |-> raw[dim]] = ExampleScores
                  => overall = 68

C5_Witness ==
    /\ HyScored
    /\ [dim \in DOMAIN weights |-> hy_response.response.scores[dim]]
          = ExampleScores
    /\ "overall" \in DOMAIN hy_response.response.scores
    /\ hy_response.response.scores.overall = JNum(90)
    /\ hy_result.value.scores.overall = JNum(68)

---------------------------------------------------------------------------
(* Properties of the serving layer *)

\* the last request listed the episodes and got them
Listed ==
    /\ http_request = [route |-> "/api/episodes"]
    /\ http_response.status = 200

EpisodeIds == {<<id>> : id \in PodcastIds}

FilesOf(dir, id) == {n \in DOMAIN Dir(dir) : n.stem = id /\ Dir(dir)[n] # NoFile}

ListedWithId(id) ==
    {i \in 1..Len(http_response.episodes) : http_response.episodes[i].id = id}

\* the episode is the one load_episodes builds from a file of dir
BuiltFrom(dir, ep) ==
    \E n \in FilesOf(dir, ep.id) : LoadEpisode(n, Dir(dir)[n]) = [value |-> ep]

Loads(dir, id) ==
    \E n \in FilesOf(dir, id) : "value" \in DOMAIN LoadEpisode(n, Dir(dir)[n])

\* C10 (as claimed): whatever the two directories hold, the episode list has
\* exactly one episode for every id that has an analysis file, and for an id
\* with a file in both directories it is the one built from the cache file.
C10_OnePerIdCacheWins ==
    Listed =>
        \A id \in EpisodeIds :
            FilesOf("cache", id) \cup FilesOf("transcripts", id) # {} =>
                /\ Cardinality(ListedWithId(id)) = 1
                /\ (FilesOf("cache", id) # {} /\ FilesOf("transcripts", id) # {})
                      => \A i \in ListedWithId(id) :
                            BuiltFrom("cache", http_response.episodes[i])

\* C10 (amended): when the listing succeeds, the episode list has exactly one
\* episode for every id that has an analysis file that loads and none for
\* any other id; for an id with a file in both directories whose cache file
\* loads, it is the one built from the cache file.
C10_OnePerLoadableIdCacheWins ==
    Listed =>
        \A id \in EpisodeIds :
            /\ Cardinality(ListedWithId(id)) =
                  IF Loads("cache", id) \/ Loads("transcripts", id)
                  THEN 1 ELSE 0
            /\ (Loads("cache", id) /\ FilesOf("transcripts", id) # {})
                  => \A i \in ListedWithId(id) :
                        BuiltFrom("cache", http_response.episodes[i])

\* an id with loadable files of different content in both directories is
\* listed, beside another episode
C10_Witness ==
    /\ Listed
    /\ Len(http_response.episodes) = 2
    /\ \E id \in EpisodeIds :
          /\ Loads("cache", id)
          /\ Loads("transcripts", id)
          /\ \E i \in ListedWithId(id) :
                /\ BuiltFrom("cache", http_response.episodes[i])
                /\ ~BuiltFrom("transcripts", http_response.episodes[i])

---------------------------------------------------------------------------
(* Properties of the transcript header *)

\* the last parse read a file that create_transcript_file wrote
ParsedCreated ==
    /\ "path" \in DOMAIN hdr_result
    /\ hdr_result.path \in DOMAIN txt_args

\* the key/value pairs given to create_transcript_file
GivenPairs(args) ==
    (<<"podcast">> :> args.podcast) @@ (<<"episode">> :> args.episode)
    @@ (<<"guest">> :> args.guest) @@ (<<"category">> :> args.category)
    @@ (<<"date">> :> args.date)
    @@ (IF "url" \in DOMAIN args THEN <<"url">> :> args.url ELSE << >>)

\* C18 (as claimed): for any podcast, episode, guest, category, date and
\* optional url, parsing the content create_transcript_file wrote returns
\* exactly the given key/value pairs.
C18_RoundTripAnyValues ==
    ParsedCreated =>
        hdr_result.metadata = GivenPairs(txt_args[hdr_result.path])

\* a value the header can carry: no line break, no surrounding whitespace
HeaderSafe(value) == Strip(value) = value /\ Find(value, NL) = 0

\* C18 (amended): when every given value is free of line breaks and of
\* leading and trailing whitespace, and the date and the url (when given)
\* are not empty, parsing the content create_transcript_file wrote returns
\* exactly the given key/value pairs.
C18_RoundTripHeaderSafeValues ==
    ParsedCreated =>
        LET args == txt_args[hdr_result.path]
        IN  (/\ \A k \in DOMAIN GivenPairs(args) :
                    HeaderSafe(GivenPairs(args)[k])
             /\ args.date # <<>>
             /\ "url" \in DOMAIN args => args.url # <<>>)
            => hdr_result.metadata = GivenPairs(args)

\* a file created with a url and with a colon inside a value was parsed
\* back to the given pairs
C18_Witness ==
    /\ ParsedCreated
    /\ LET args == txt_args[hdr_result.path]
       IN  /\ "url" \in DOMAIN args
           /\ args.url = EpisodeUrl
           /\ args.podcast = <<COLON, "a">>
           /\ hdr_result.metadata = GivenPairs(args)

\* a later line of the content begins with the dashes
HasClosingLine(content) ==
    \E q \in 2..(Len(content) - 1) :
        content[q] = NL /\ content[q + 1] = DASHES

BeginsWithDashes(content) == content # <<>> /\ content[1] = DASHES

Parsed == hdr_result # NoCall /\ "path" \notin DOMAIN hdr_result

\* C19 (as claimed): for content that does not begin with the dashes, and
\* for content that begins with them but has no closing line of dashes,
\* parse_transcript_header returns empty metadata and the entire content.
C19_NoHeaderReturnsEntireContent ==
    (Parsed /\ (~BeginsWithDashes(hdr_content) \/ ~HasClosingLine(hdr_content)))
        => hdr_result = [metadata |-> << >>, transcript |-> hdr_content]

\* C19 (amended): for content that, stripped of leading and trailing
\* whitespace, does not begin with the dashes or has no later line beginning
\* with them, parse_transcript_header returns empty metadata and the stripped
\* content.
C19_NoHeaderReturnsStrippedContent ==
    (Parsed /\ (~BeginsWithDashes(Strip(hdr_content))
                  \/ ~HasClosingLine(Strip(hdr_content))))
        => hdr_result =
              [metadata |-> << >>, transcript |-> Strip(hdr_content)]

\* content with opening dashes, a key line and no closing line, inside
\* whitespace, was parsed
C19_Witness ==
    /\ Parsed
    /\ hdr_content # Strip(hdr_content)
    /\ BeginsWithDashes(Strip(hdr_content))
    /\ Find(hdr_content, COLON) # 0
    /\ ~HasClosingLine(Strip(hdr_content))
    /\ hdr_result = [metadata |-> << >>, transcript |-> Strip(hdr_content)]

---------------------------------------------------------------------------
(* The catalog as a collection *)

SameInsight(a, b) ==
    /\ a.podcastTitle = b.podcastTitle
    /\ a.episodeTitle = b.episodeTitle
    /\ a.sourceFile = b.sourceFile
    /\ a.insight = b.insight

\* C16: the catalog is de-duplicated: an insight (same episode, same insight
\* statement) that occurs more than once among the input documents has a
\* single card in the written catalog
C16_CatalogDeduplicated ==
    Written =>
        \A i, j \in 1..Len(catalog.insights) :
            SameInsight(catalog.insights[i], catalog.insights[j]) => i = j

\* the list holds each member of the set once and nothing else
ListsEachOnce(list, S) ==
    /\ Range(list) = S
    /\ Len(list) = Cardinality(S)

\* C17: in every written catalog the four metadata index lists are exactly
\* the distinct values occurring among the emitted cards, each listed once,
\* and no value that occurs on no card
C17_IndexListsAreDistinctCardValues ==
    Written =>
        LET cards == Range(catalog.insights)
            m == catalog.metadata
        IN  /\ ListsEachOnce(m.categories, {c.category : c \in cards})
            /\ ListsEachOnce(m.characteristics,
                             UNION {Range(c.characteristics.elems) : c \in cards})
            /\ ListsEachOnce(m.guests, {c.guest : c \in cards})
            /\ ListsEachOnce(m.podcasts, {c.podcastTitle : c \in cards})

\* a written catalog whose cards repeat categories, characteristics, guests
\* and podcasts, and leave part of the category enum unused
C17_Witness ==
    /\ Written
    /\ Len(catalog.insights) >= 3
    /\ Len(catalog.metadata.categories) = 2
    /\ Len(catalog.metadata.guests) = 2
    /\ Len(catalog.metadata.podcasts) = 2
    /\ Len(catalog.metadata.characteristics) = 3
    /\ \E i, j \in 1..Len(catalog.insights) :
          /\ i # j
          /\ catalog.insights[i].category = catalog.insights[j].category
          /\ catalog.insights[i].guest = catalog.insights[j].guest

---------------------------------------------------------------------------
(* Determinism of a run *)

\* a catalog without what a run mints anew: the card ids (createdAt and
\* generatedAt are not modelled)
Content(cat) ==
    [cat EXCEPT !.insights =
        [i \in 1..Len(cat.insights) |->
            [k \in DOMAIN cat.insights[i] \ {"id"} |-> cat.insights[i][k]]]]

\* C14: two runs over identical input files write catalogs that are equal in
\* everything except card ids and timestamps: the same cards in the same
\* order, the same totals and the same metadata index lists
C14_RunsOverSameFilesAgree ==
    [][(/\ runs' = runs + 1
        /\ run_status' = "written"
        /\ last_run # NoCall
        /\ last_run.files = transcripts_dir)
          => Content(catalog') = Content(last_run.wrote)]_vars

---------------------------------------------------------------------------
(* The pipeline: transcript, analysis file, catalog *)

TranscriptOf(f) == txt_dir[f.stem]

\* the category the header of a transcript declares, "" when it has none
HeaderCategory(content) ==
    Get(MetadataDict(parse_transcript_header(content).metadata),
        "category", "")

\* the cards of the catalog that come from file f
CatalogCardsOf(f) ==
    LET FromFile(c) == c.sourceFile = f
    IN  SelectSeq(catalog.insights, FromFile)

\* the last written run read, for a transcript whose header declares
\* build_ai_products, an analysis file without an episode_metadata block
OldFormatOfAiTranscript(f) ==
    /\ f.stem \in DOMAIN txt_dir
    /\ HeaderCategory(TranscriptOf(f)) = "build_ai_products"
    /\ last_run.files[f] # NoFile
    /\ IsObject(last_run.files[f])
    /\ "episode_metadata" \notin DOMAIN last_run.files[f]

\* every card of f whose insight has no valid category of its own has the
\* given category
CardsDefaultTo(f, category) ==
    LET items == Takeaways(last_run.files[f])
    IN  \A k \in 1..Len(CatalogCardsOf(f)) :
            Get(items[k], "category", "") \notin VALID_CATEGORIES
                => CatalogCardsOf(f)[k].category = category

\* C13 (as claimed): for a transcript whose header declares category
\* build_ai_products and whose analysis file has no episode_metadata block,
\* every catalog card of that document whose insight has no valid category
\* of its own has category build_ai_products
C13_HeaderCategoryIsCardDefault ==
    last_run # NoCall =>
        \A f \in DOMAIN transcripts_dir :
            OldFormatOfAiTranscript(f) => CardsDefaultTo(f, "build_ai_products")

\* C13 (amended): for such a transcript and analysis file, every catalog
\* card of that document whose insight has no valid category of its own has
\* category learn_from_legends
C13_FilenameFallbackIsCardDefault ==
    last_run # NoCall =>
        \A f \in DOMAIN transcripts_dir :
            OldFormatOfAiTranscript(f) => CardsDefaultTo(f, "learn_from_legends")

\* the catalog holds cards of an old-format analysis file of a transcript
\* whose header declares build_ai_products
C13_Witness ==
    /\ last_run # NoCall
    /\ \E f \in DOMAIN transcripts_dir :
          /\ OldFormatOfAiTranscript(f)
          /\ Len(CatalogCardsOf(f)) = 2
          /\ \A k \in 1..2 : CatalogCardsOf(f)[k].category = "learn_from_legends"

\* C15: each run rebuilds the catalog from the analysis files alone: after
\* the run the catalog holds exactly the cards derived from the files present
\* at that run, and nothing of the previous catalog carries over (no card of
\* a since-removed document, no judgment attached by add_judgments)
C15_RunRebuildsCatalog ==
    [][runs' = runs + 1
          => /\ catalog' # NoCatalog
             /\ catalog'.insights = all_insights'
             /\ \A c \in Range(catalog'.insights) :
                   /\ transcripts_dir[c.sourceFile] # NoFile
                   /\ c.judgment = JNull]_vars

NoResponseParses == [api |-> "returns", response |-> InvalidJson]

\* C20: when the model's response does not parse as JSON, the hybrid
\* analyze_podcast raises the parse error, no default document standing in
\* for the analysis, and analyze_and_save writes no analysis file
C20_ParseFailureRaisesAndWritesNothing ==
    [][(calls' = calls + 1 /\ hy_response' = NoResponseParses)
          => /\ hy_result' = [raised |-> "JSONDecodeError"]
             /\ transcripts_dir' = transcripts_dir]_vars

\* the first analysis got a response that does not parse: the error is the
\* outcome and the directory holds no analysis file
C20_Witness ==
    /\ calls = 1
    /\ hy_response = NoResponseParses
    /\ hy_result = [raised |-> "JSONDecodeError"]
    /\ \A f \in DOMAIN transcripts_dir : transcripts_dir[f] = NoFile

---------------------------------------------------------------------------
(* The legacy analyzer's fallback *)

\* the model call failed, or its response is not a JSON object
LlmFailed(outcome) ==
    \/ outcome.api = "raises"
    \/ outcome.response = InvalidJson
    \/ ~IsObject(outcome.response)

\* C21: the legacy analyze_podcast_with_llm never raises: when the model call
\* fails or the response does not parse, it returns the fixed fallback
\* document (freshness_score 5, insight_score 5, no takeaways,
\* characteristics ["error"], an `error` field), which analyze_podcast caches
\* and returns
C21_FailureReturnsFallbackDocument ==
    [][(llm_calls' = llm_calls + 1 /\ LlmFailed(llm_outcome'))
          => LET d == cache_dir'[CachePath(last_call'.podcast_id)]
             IN  /\ IsObject(d)
                 /\ {"error", "freshness_score", "insight_score",
                     "top_5_takeaways", "characteristics"} \subseteq DOMAIN d
                 /\ d.freshness_score = 5
                 /\ d.insight_score = 5
                 /\ d.top_5_takeaways = <<>>
                 /\ d.characteristics = JArr(<<"error">>)
                 /\ last_return' = [value |-> d]]_vars

\* the model answered with text that is not JSON and the call returned the
\* fallback document
C21_Witness ==
    /\ llm_calls > 0
    /\ llm_outcome = [api |-> "returns", response |-> InvalidJson]
    /\ last_return = [value |-> FallbackDocument("JSONDecodeError")]
    /\ cache_dir[CachePath(last_call.podcast_id)]
          = FallbackDocument("JSONDecodeError")

---------------------------------------------------------------------------
(* The serving layer reads only *)

\* C22: no operation of the serving layer (episode list, episode by id,
\* legacy podcast listing, legacy analyze endpoint, health check) creates,
\* modifies or deletes a file of the cache directory, of the transcripts
\* directory, or the catalog, whatever the sequence of requests
C22_ServingWritesNothing ==
    [][/\ cache_dir' = cache_dir
       /\ transcripts_dir' = transcripts_dir
       /\ catalog' = catalog
       /\ metadata_json' = metadata_json]_vars

\* the legacy analyze endpoint answered 404 for a podcast that has no
\* analysis file, beside files of another podcast
C22_Witness ==
    /\ http_request # NoCall
    /\ http_request.route = "/api/analyze"
    /\ http_response = [status |-> 404]
    /\ FilesOf("cache", http_request.podcast_id) = {}
    /\ \E n \in DOMAIN cache_dir : cache_dir[n] # NoFile

---------------------------------------------------------------------------
(* The episode list and the two schema generations *)

\* the document an episode of the list is built from: the first file of
\* that id in scan order
SourceOf(id) ==
    LET at == {i \in 1..Len(analysis_files) : analysis_files[i].name.stem = id}
        first == CHOOSE i \in at : \A j \in at : i <= j
    IN  Dir(analysis_files[first].dir)[analysis_files[first].name]

\* C23: a legacy (flat-score) document is listed with all six dimensions:
\* insight_density is its insight_score, freshness its freshness_score, a
\* missing legacy score is 5, and signal_to_noise, actionability,
\* contrarian_index and host_quality are fixed at 5
C23_LegacyScoresNormalised ==
    Listed =>
        \A i \in 1..Len(http_response.episodes) :
            LET ep == http_response.episodes[i]
                doc == SourceOf(ep.id)
            IN  "scores" \notin DOMAIN doc =>
                    /\ ep.insight_density =
                          (IF "insight_score" \in DOMAIN doc
                           THEN doc.insight_score ELSE 5)
                    /\ ep.freshness =
                          (IF "freshness_score" \in DOMAIN doc
                           THEN doc.freshness_score ELSE 5)
                    /\ ep.signal_to_noise = 5
                    /\ ep.actionability = 5
                    /\ ep.contrarian_index = 5
                    /\ ep.host_quality = 5

\* the list holds a legacy episode with both scores and one whose
\* freshness_score is missing
C23_Witness ==
    /\ Listed
    /\ \E i, j \in 1..Len(http_response.episodes) :
          /\ SourceOf(http_response.episodes[i].id) = LegacyDocument
          /\ http_response.episodes[i].freshness = 3
          /\ http_response.episodes[i].insight_density = 7
          /\ "scores" \notin DOMAIN SourceOf(http_response.episodes[j].id)
          /\ "freshness_score"
                \notin DOMAIN SourceOf(http_response.episodes[j].id)
          /\ http_response.episodes[j].freshness = 5

\* the insight list of a document of either generation
InsightsOf(doc) ==
    IF "insights" \in DOMAIN doc THEN doc.insights
    ELSE Get(doc, "top_5_takeaways", <<>>)

\* C27: the episode list exposes a document's insights in either schema
\* generation: for a document with its list under `insights` as for one with
\* its list under `top_5_takeaways`, top_insight is the text of the first
\* insight and truly_non_obvious_count the number of insights whose
\* obviousness_level is truly_non_obvious
C27_InsightsOfEitherGenerationListed ==
    Listed =>
        \A i \in 1..Len(http_response.episodes) :
            LET ep == http_response.episodes[i]
                items == InsightsOf(SourceOf(ep.id))
            IN  /\ ep.top_insight =
                      (IF items # <<>> THEN Get(items[1], "insight", "") ELSE "")
                /\ ep.truly_non_obvious_count =
                      Cardinality({k \in 1..Len(items) :
                          Get(items[k], "obviousness_level", "")
                              = "truly_non_obvious"})

---------------------------------------------------------------------------
(* New transcript files never replace old ones *)

\* C24: whatever the sequence of create_transcript_file calls, each call
\* writes a file that did not exist before, named by the first free of
\* {guest_slug}_{episode_slug}, ..._1, ..._2, ...; no existing transcript
\* file is overwritten, so every call returns a path no earlier call returned
C24_CreateNeverOverwrites ==
    [][txt_args' # txt_args =>
          \E path \in DOMAIN txt_dir' \ DOMAIN txt_dir :
             LET args == txt_args'[path]
             IN  /\ DOMAIN txt_dir' = DOMAIN txt_dir \cup {path}
                 /\ \A old \in DOMAIN txt_dir : txt_dir'[old] = txt_dir[old]
                 /\ txt_dir'[path] = TranscriptContent(args)
                 /\ \E n \in 0..Cardinality(DOMAIN txt_dir) :
                       /\ path = TranscriptPath(args.guest, args.episode, n)
                       /\ \A m \in 0..(n - 1) :
                             TranscriptPath(args.guest, args.episode, m)
                                \in DOMAIN txt_dir]_vars

\* three calls for the same guest and episode left three files, the base
\* name and the suffixes _1 and _2, the first holding its own body still
C24_Witness ==
    /\ DOMAIN txt_dir = {<<"a", "_", "a">>, <<"a", "_", "a", "_", "1">>,
                         <<"a", "_", "a", "_", "2">>}
    /\ txt_args[<<"a", "_", "a">>].episode = <<"a">>
    /\ txt_args[<<"a", "_", "a", "_", "1">>].episode = <<"a">>
    /\ txt_args[<<"a", "_", "a">>].transcript_content = <<"a">>
    /\ txt_args[<<"a", "_", "a", "_", "1">>].transcript_content = <<"A">>
    /\ txt_dir[<<"a", "_", "a">>]
          = TranscriptContent(txt_args[<<"a", "_", "a">>])

---------------------------------------------------------------------------
(* The prompt's transcript budget *)

\* C25: the transcript text embedded in the prompt sent to the model has at
\* most 50000 characters, in the legacy analyzer and in the hybrid analyzer
\* alike.
C25_PromptTranscriptWithinBudget ==
    prompt_sent # NoCall => prompt_sent.embedded <= TRANSCRIPT_BUDGET

---------------------------------------------------------------------------
(* Metadata inferred from the file name *)

\* the underscore-separated tokens of a path's file name, the extension and
\* the analysis/transcript suffixes removed
Tokens(filepath) ==
    UnderscoreParts(NameWithoutSuffixes(BeforeLastDot(Basename(filepath))))

Inferred == inf_result # NoCall

\* C26 (as stated): tokens 1-2 go to podcast, tokens 3-4 to guest and the
\* remaining tokens to episode, each title-cased, with category
\* learn_from_legends; a field that receives no tokens keeps its own
\* 'Unknown ...' default.
C26_FieldWithoutTokensKeepsOwnDefault ==
    Inferred =>
        LET t == Tokens(inf_filepath)
        IN  /\ inf_result.podcast = TitleJoin(Slice(t, 1, 2))
            /\ inf_result.guest =
                  IF Len(t) >= 3 THEN TitleJoin(Slice(t, 3, 4))
                  ELSE <<"Unknown Guest">>
            /\ inf_result.episode =
                  IF Len(t) >= 5 THEN TitleJoin(Slice(t, 5, Len(t)))
                  ELSE <<"Unknown Episode">>
            /\ inf_result.category = <<"learn_from_legends">>

\* C26 (amended): a name of at least two tokens gives podcast = tokens 1-2,
\* guest = tokens 3-4 or 'Unknown Guest' when there is no third token, and
\* episode = the tokens from the fifth on or, when there is no fifth token,
\* the value of guest; a name of one token gives the three 'Unknown ...'
\* defaults; the category is learn_from_legends in every case.
C26_EpisodeWithoutTokensTakesGuest ==
    Inferred =>
        LET t == Tokens(inf_filepath)
        IN  /\ inf_result.category = <<"learn_from_legends">>
            /\ Len(t) >= 2 =>
                  /\ inf_result.podcast = TitleJoin(Slice(t, 1, 2))
                  /\ inf_result.guest =
                        IF Len(t) >= 3 THEN TitleJoin(Slice(t, 3, 4))
                        ELSE <<"Unknown Guest">>
                  /\ inf_result.episode =
                        IF Len(t) >= 5 THEN TitleJoin(Slice(t, 5, Len(t)))
                        ELSE inf_result.guest
            /\ Len(t) < 2 =>
                  /\ inf_result.podcast = <<"Unknown Podcast">>
                  /\ inf_result.guest = <<"Unknown Guest">>
                  /\ inf_result.episode = <<"Unknown Episode">>

\* a name of four tokens after its suffix is removed: the episode is the
\* guest's name
C26_Witness ==
    /\ Inferred
    /\ inf_filepath = <<"transcripts", "/", "lenny", "_", "SHOW", "_", "SHOW",
                        "_", "lenny", "_", "analysis", "_", "hybrid",
                        ".", "txt">>
    /\ inf_result.podcast = <<"Lenny", SP, "Show">>
    /\ inf_result.guest = <<"Show", SP, "Lenny">>
    /\ inf_result.episode = <<"Show", SP, "Lenny">>

---------------------------------------------------------------------------
(* The batch run *)

\* the results list holds one result for each transcript attempted so far,
\* in the order of the list, a success exactly for the attempt that exited 0
OneResultPerAttempted ==
    batch_pc \in {"running", "done"} =>
        /\ Len(batch_results) + Len(batch_pending) = Len(batch_listed)
        /\ \A i \in 1..Len(batch_results) :
              /\ batch_results[i].file = batch_listed[i]
              /\ Len(batch_attempts[batch_listed[i]]) = 1
              /\ batch_results[i].success
                    = (batch_attempts[batch_listed[i]] = <<"exit_0">>)
        /\ \A i \in (Len(batch_results) + 1)..Len(batch_listed) :
              batch_attempts[batch_listed[i]] = << >>

AllAttempted ==
    batch_pc = "done" =>
        /\ Len(batch_results) = Len(batch_listed)
        /\ \A stem \in Range(batch_listed) : Len(batch_attempts[stem]) = 1

\* C28: in one batch run each unanalyzed transcript is attempted exactly
\* once; an attempt that times out, exits non-zero or raises is recorded as
\* a failure and not retried, the remaining transcripts are still attempted,
\* and the run ends with one result per transcript.
C28_EachTranscriptAttemptedOnce ==
    /\ [](OneResultPerAttempted /\ AllAttempted)
    /\ (batch_pc = "running") ~> (batch_pc = "done")

\* a finished run of two transcripts: the first attempt timed out, the
\* second was still made and succeeded
C28_Witness ==
    /\ batch_pc = "done"
    /\ Len(batch_listed) = 2
    /\ batch_attempts[batch_listed[1]] = <<"timeout">>
    /\ batch_attempts[batch_listed[2]] = <<"exit_0">>
    /\ batch_results = <<[file |-> batch_listed[1], success |-> FALSE],
                         [file |-> batch_listed[2], success |-> TRUE]>>

---------------------------------------------------------------------------
(* Whole documents and the catalog's counts *)

\* the analysis files the scan finds
FoundFiles ==
    {f \in DOMAIN transcripts_dir :
        f.suffix = HYBRID_SUFFIX /\ transcripts_dir[f] # NoFile}

\* a document whose insight list starts with an item that processes and
\* holds a later one that raises
FailsPartWay(f) ==
    /\ transcripts_dir[f] # InvalidJson
    /\ Len(TakeawaysOf(f)) >= 2
    /\ IsObject(TakeawaysOf(f)[1])
    /\ \E i \in 2..Len(TakeawaysOf(f)) : ~IsObject(TakeawaysOf(f)[i])

\* C29: a document contributes either all of its insight cards or none; when
\* processing fails part-way through its insight list, none of its cards,
\* not even those built before the failure, are in the catalog.
C29_AllCardsOrNone ==
    catalog # NoCatalog =>
        \A f \in FoundFiles :
            /\ Len(CardsOf(f)) \in {0, Len(TakeawaysOf(f))}
            /\ ~Processes(f) => CardsOf(f) = << >>

\* a written catalog over a document that fails at its second item and a
\* document that processes: only the second one's cards are there
C29_Witness ==
    /\ Written
    /\ \E f, g \in FoundFiles :
          /\ FailsPartWay(f)
          /\ CardsOf(f) = << >>
          /\ Processes(g)
          /\ CardsOf(g) # << >>
          /\ Len(CardsOf(g)) = Len(TakeawaysOf(g))

\* the number of insight items of the documents that process
ItemsOfProcessed ==
    Sum([f \in FoundFiles |->
            IF Processes(f) THEN Len(TakeawaysOf(f)) ELSE 0], FoundFiles)

\* C30: in every written catalog totalInsights is the number of entries of
\* `insights`, which is the number of insight items of the documents that
\* processed without error, and metadata.sources is the number of analysis
\* files the scan found, the skipped ones counted.
C30_CountsOfWrittenCatalog ==
    Written =>
        /\ catalog.totalInsights = Len(catalog.insights)
        /\ Len(catalog.insights) = ItemsOfProcessed
        /\ catalog.metadata.sources = Cardinality(FoundFiles)

\* a written catalog of one card over two files, one of them skipped
C30_Witness ==
    /\ Written
    /\ \E f \in FoundFiles : ~Processes(f)
    /\ Cardinality(FoundFiles) = 2
    /\ catalog.metadata.sources = 2
    /\ catalog.totalInsights = 1


====
